---- MODULE Spec2Model ----
(***************************************************************************)
(* A model of gitgov (platy/smtp-dump): the orchestrator of                *)
(* src/src/bin/server.rs, which folds notification emails into a chain of  *)
(* git commits, the tree/commit builder of src/src/git.rs, the crawl of    *)
(* fetch_change with retrieve_doc (src/src/lib.rs, src/src/doc.rs), the    *)
(* email parser of src/src/email_update.rs, remove_ids of src/src/doc.rs,  *)
(* and the SMTP receivers of src/src/main.rs and src/src/bin/server.rs.    *)
(* Each part has its own specification; the variables of the other parts   *)
(* stay idle in it.                                                        *)
(*                                                                         *)
(* Encodings.                                                              *)
(*  - A path string is the sequence of its '/'-separated segments:         *)
(*    "/a/b" is <<"", "a", "b">>, "a" is <<"a">>, "" is <<"">>.  Every     *)
(*    string is exactly one non-empty sequence of '/'-free segments.       *)
(*  - An Option<T> is a sequence of length 0 (None) or 1 (Some).           *)
(*  - Git objects are content addressed, so an object is its own id: a     *)
(*    blob is [bytes |-> b], a tree is a function from entry names to      *)
(*    entries, a commit is [parents, tree, message] holding its parent     *)
(*    commits.  The time stamps of a commit's signatures are left out.     *)
(***************************************************************************)
EXTENDS Naturals, Sequences, FiniteSets, TLC

VARIABLES
    \* ---- the orchestrator (src/src/bin/server.rs)
    inbox,      \* the email files in the pending directory
    outbox,     \* the email files in the archive directory
    mail,       \* the content of every email file delivered so far
    ref,        \* Option<Commit>: the named reference of the repository
    locks,      \* email -> the instances holding a shared advisory lock on it
    proc,       \* instance -> its control state and locals
    restarts,   \* how often an instance was started again
    \* ---- one CommitBuilder driven on its own (src/src/git.rs)
    builder,    \* [state, tree, parent]: the CommitBuilder
    made,       \* the commits this builder chain has returned, oldest first
    calls,      \* the add_to_tree calls made on the builder, oldest first
    writes,     \* the number of add_to_tree calls made
    \* ---- one crawl of fetch_change (src/src/bin/server.rs)
    site,       \* html page of www.gov.uk -> the hrefs of its attachment links
    urls,       \* the VecDeque of URLs still to visit
    trail,      \* what the loop did with every URL dequeued, oldest first
    wtree,      \* the tree write_out has built
    fc,         \* [pc, err]: where fetch_change is, and the error returned
    \* ---- one call of GovUkChange::from_eml (src/src/email_update.rs)
    eml,        \* the email handed to the parser
    answer,     \* Option<result>: what the parser returned
    \* ---- remove_ids applied again and again (src/src/doc.rs)
    frag,       \* the HTML fragment handed to the first remove_ids
    passes,     \* the results of the calls of remove_ids so far
    \* ---- an SMTP receiver (src/src/main.rs, src/src/bin/server.rs)
    files,      \* path -> the lines of the file at that path
    sess,       \* [pc, n, sent, writer, reply]: the SMTP session and its handler
    clock,      \* Option<[secs, frac]>: the time Utc::now() last returned
    delivered,  \* the [path, bytes] of the transactions whose data_end said OK
    seen        \* the [path, bytes] the orchestrator has read from pending files

orchVars == <<inbox, outbox, mail, ref, locks, proc, restarts>>
treeVars == <<builder, made, calls, writes>>
crawlVars == <<site, urls, trail, wtree, fc>>
parseVars == <<eml, answer>>
canonVars == <<frag, passes>>
recvVars == <<files, sess, clock, delivered, seen>>
vars == <<inbox, outbox, mail, ref, locks, proc, restarts,
          builder, made, calls, writes, site, urls, trail, wtree, fc,
          eml, answer, frag, passes, files, sess, clock, delivered, seen>>

\* ------------------------------------------------------------------ bounds
NumEmails == 2
MaxEvents == 2
MaxRestarts == 1
MaxWrites == 3
MaxCommits == 2
MaxFetches == 4
MaxSections == 2
MaxDepth == 2
MaxPasses == 2
MaxMails == 2
MaxLines == 2
MaxSecs == 0

\* ------------------------------------------------------- program constants
FileMode == 33188
TreeMode == 16384

\* --------------------------------------------------------------- options
None == << >>
Some(x) == <<x>>
IsSome(o) == Len(o) = 1
Unwrap(o) == o[1]

Range(seq) == {seq[i] : i \in 1..Len(seq)}

\* ------------------------------------------------------------ git objects
EmptyTree == << >>
Blob(bytes) == [bytes |-> bytes]
BlobEntry(oid, mode) == [kind |-> "blob", mode |-> mode, obj |-> oid]
TreeEntry(tree) == [kind |-> "tree", mode |-> TreeMode, obj |-> tree]

\* git_treebuilder_insert refuses an entry name that is empty.
ValidEntryName(name) == name # ""

\* format!("{}|", base)
Malformed(base) == base \o "|"

Ok(tree) == [ok |-> TRUE, tree |-> tree, err |-> ""]
\* An error returned by a call that left the TreeBuilder as tb
Err(tb, e) == [ok |-> FALSE, tree |-> tb, err |-> e]

\* The subtree to continue in, when `base` names a blob: a lookup of the
\* name followed by '|'.
MalformedChild(tb, base) ==
    IF Malformed(base) \in DOMAIN tb
    THEN IF tb[Malformed(base)].kind = "tree"
         THEN [ok |-> TRUE, child |-> tb[Malformed(base)].obj, err |-> ""]
         ELSE [ok |-> FALSE, child |-> EmptyTree,
               err |-> "file blocking tree creation x 2"]
    ELSE [ok |-> TRUE, child |-> EmptyTree, err |-> ""]

\* A mutant of ChildTree: the child builder always starts empty.
ChildTreeEmpty(tb, base) == [ok |-> TRUE, child |-> EmptyTree, err |-> ""]

\* The tree the child builder starts from (None is the empty tree).
ChildTree(tb, base) ==
    IF base \in DOMAIN tb
    THEN IF tb[base].kind = "tree"
         THEN [ok |-> TRUE, child |-> tb[base].obj, err |-> ""]
         ELSE MalformedChild(tb, base)
    ELSE [ok |-> TRUE, child |-> EmptyTree, err |-> ""]

\* tree_builder.insert(name, oid, mode)
Insert(tb, name, entry) ==
    IF ValidEntryName(name)
    THEN Ok([n \in DOMAIN tb \cup {name} |-> IF n = name THEN entry ELSE tb[n]])
    ELSE Err(tb, "invalid entry name")

\* A mutant of ChildFailed: the child builder is written and inserted
\* although the call on it failed.
ChildFailedInserted(tb, base, sub) ==
    [ok |-> FALSE,
     tree |-> [n \in DOMAIN tb \cup {base} |->
                 IF n = base THEN TreeEntry(sub.tree) ELSE tb[n]],
     err |-> sub.err]

\* write_to_path_in_tree(repo, &mut child_tree_builder, ..)?: the error of
\* the call on the child builder is returned before anything is inserted.
ChildFailed(tb, base, sub) == Err(tb, sub.err)

\* The storage fails in the call `fault` levels down (0: nowhere): there
\* child_tree_builder.write() or, at the last segment, the insert of the
\* blob returns an error.
RECURSIVE write_to_path_in_tree(_, _, _, _, _)
write_to_path_in_tree(tb, path, oid, filemode, fault) ==
    LET base == Head(path)
    IN  IF Len(path) > 1
        THEN LET ct == ChildTree(tb, base)
             IN  IF ~ct.ok THEN Err(tb, ct.err)
                 ELSE LET sub == write_to_path_in_tree(ct.child, Tail(path),
                                    oid, filemode,
                                    IF fault > 1 THEN fault - 1 ELSE 0)
                      IN  IF ~sub.ok THEN ChildFailed(tb, base, sub)
                          ELSE IF fault = 1 THEN Err(tb, "storage error")
                          ELSE Insert(tb, base, TreeEntry(sub.tree))
        ELSE IF fault = 1 THEN Err(tb, "storage error")
        ELSE Insert(tb, base, BlobEntry(oid, filemode))

\* path.strip_prefix('/')
HasRootPrefix(path) == Len(path) >= 2 /\ path[1] = ""

add_to_tree(tb, path, oid, filemode, fault) ==
    IF HasRootPrefix(path)
    THEN write_to_path_in_tree(tb, Tail(path), oid, filemode, fault)
    ELSE Err(tb, "relative path provided")

\* CommitBuilder::new: the builder starts from the parent's tree.
BaseTree(parent) == IF IsSome(parent) THEN Unwrap(parent).tree ELSE EmptyTree

\* A mutant of CommitParents: the commit is created without its parent.
CommitParentsNone(parent) == None

\* The parents handed to repo.commit.
CommitParents(parent) == parent

\* CommitBuilder::commit: the commit object written.
NewCommit(parent, tree, message) ==
    [parents |-> CommitParents(parent), tree |-> tree, message |-> message]

\* ------------------------------------------------ reading committed trees
\* The entry a '/'-free-segment path resolves to in a tree, as an Option.
RECURSIVE GetPath(_, _)
GetPath(tree, path) ==
    IF Head(path) \notin DOMAIN tree THEN None
    ELSE IF Len(path) = 1 THEN Some(tree[Head(path)])
    ELSE IF tree[Head(path)].kind = "tree"
         THEN GetPath(tree[Head(path)].obj, Tail(path))
         ELSE None

\* The commit and all its ancestors.
RECURSIVE History(_)
History(c) ==
    {c} \cup UNION {History(c.parents[i]) : i \in 1..Len(c.parents)}

Reachable(r) == IF IsSome(r) THEN History(Unwrap(r)) ELSE {}

\* ------------------------------------------------------------------------
\* One CommitBuilder driven on its own: new, add_to_tree*, commit, and a new
\* builder on the commit returned (as handle_change chains them).
\* ------------------------------------------------------------------------
\* The paths written: "/a", "/a|", "/b", "/a/a", "/a/b", "/a|/b", "/b/a" and
\* "/a/b/a"; and "a" (no leading '/'), "/a/" and "//a" (an empty segment).
AbsPaths ==
    {<<"", "a">>, <<"", "a|">>, <<"", "b">>,
     <<"", "a", "a">>, <<"", "a", "b">>, <<"", "a|", "b">>, <<"", "b", "a">>,
     <<"", "a", "b", "a">>}
OddPaths == {<<"a">>, <<"", "a", "">>, <<"", "", "a">>}
TreePaths == AbsPaths \cup OddPaths

\* The bytes of the n-th blob written
Bytes(n) == "bytes " \o ToString(n)

BuilderIdle ==
    /\ builder = [state |-> "Idle", tree |-> EmptyTree, parent |-> None]
    /\ made = << >>
    /\ calls = << >>
    /\ writes = 0

\* CommitBuilder::new(repo, parent)
CommitBuilderNew(parent) ==
    [state |-> "Open", tree |-> BaseTree(parent), parent |-> parent]

InitBuilder ==
    /\ builder = CommitBuilderNew(None)
    /\ made = << >>
    /\ calls = << >>
    /\ writes = 0

\* The calls whose storage may fail: the path "/a/b/a", at each of its levels
FaultPath == <<"", "a", "b", "a">>
StorageFaults(path) == IF path = FaultPath THEN 0..(Len(path) - 1) ELSE {0}

\* add_to_tree(path, oid, 0o100644), oid the blob of the bytes: the
\* TreeBuilder is what the call left.
TbAddToTree(path, fault) ==
    /\ builder.state = "Open"
    /\ writes < MaxWrites
    /\ LET oid == Blob(Bytes(writes + 1))
           r == add_to_tree(builder.tree, path, oid, FileMode, fault)
       IN  /\ builder' = [builder EXCEPT !.tree = r.tree]
           /\ calls' = Append(calls, [path |-> path, oid |-> oid,
                                      before |-> builder.tree,
                                      ok |-> r.ok, err |-> r.err])
    /\ writes' = writes + 1
    /\ UNCHANGED <<made, orchVars, crawlVars, parseVars, canonVars, recvVars>>

\* commit(author, committer, message): the builder is consumed.
TbCommit ==
    /\ builder.state = "Open"
    /\ Len(made) < MaxCommits
    /\ made' = Append(made, NewCommit(builder.parent, builder.tree, "commit"))
    /\ builder' = [builder EXCEPT !.state = "Committed"]
    /\ UNCHANGED <<calls, writes, orchVars, crawlVars, parseVars, canonVars, recvVars>>

\* CommitBuilder::new on the commit just returned
TbNew ==
    /\ builder.state = "Committed"
    /\ builder' = CommitBuilderNew(Some(made[Len(made)]))
    /\ calls' = << >>
    /\ UNCHANGED <<made, writes, orchVars, crawlVars, parseVars, canonVars, recvVars>>

NextTree ==
    \/ \E path \in TreePaths : \E fault \in StorageFaults(path) : TbAddToTree(path, fault)
    \/ TbCommit
    \/ TbNew

\* ------------------------------------------------------------------------
\* The canonicalizer: remove_ids of src/src/doc.rs.
\*
\* An HTML fragment is a sequence of nodes; a node is a text node or an
\* element of a name, its attributes in order and its child nodes.  The
\* value of an attribute is the sequence of its space-separated tokens.
\* ------------------------------------------------------------------------
TextNode(str) == [kind |-> "text", s |-> str]
Tag(name, attrs, kids) == [kind |-> "elem", name |-> name, attrs |-> attrs, kids |-> kids]
Attr(name, value) == [name |-> name, value |-> value]

\* The attributes the element handlers remove
RemovedAttributes == {"id", "aria-labelledby", "aria-hidden"}

\* A mutant of StripAttributes: one call removes the first such attribute only.
StripFirstAttribute(attrs) ==
    IF \E i \in 1..Len(attrs) : attrs[i].name \in RemovedAttributes
    THEN LET first == CHOOSE i \in 1..Len(attrs) :
                         /\ attrs[i].name \in RemovedAttributes
                         /\ \A j \in 1..(i - 1) : attrs[j].name \notin RemovedAttributes
         IN  SubSeq(attrs, 1, first - 1) \o SubSeq(attrs, first + 1, Len(attrs))
    ELSE attrs

\* el.remove_attribute of "id", "aria-labelledby" and "aria-hidden"
StripAttributes(attrs) ==
    SelectSeq(attrs, LAMBDA a : a.name \notin RemovedAttributes)

\* A mutant of IsSidebar: the class attribute has to be the marker alone.
IsSidebarAlone(el) ==
    \E i \in 1..Len(el.attrs) :
        el.attrs[i] = Attr("class", <<"gem-c-contextual-sidebar">>)

\* The selector .gem-c-contextual-sidebar
IsSidebar(el) ==
    \E i \in 1..Len(el.attrs) :
        /\ el.attrs[i].name = "class"
        /\ "gem-c-contextual-sidebar" \in Range(el.attrs[i].value)

\* The rewriter cannot tell how to parse a text-mode element below a
\* select (lol_html's parsing ambiguity error).
RECURSIVE Ambiguous(_)
Ambiguous(nodes) ==
    \E i \in 1..Len(nodes) :
        /\ nodes[i].kind = "elem"
        /\ \/ /\ nodes[i].name = "select"
              /\ \E k \in 1..Len(nodes[i].kids) :
                    nodes[i].kids[k].kind = "elem" /\ nodes[i].kids[k].name = "xmp"
           \/ Ambiguous(nodes[i].kids)

\* rewrite_str with the four element handlers
RECURSIVE rewrite_str(_)
rewrite_str(nodes) ==
    IF nodes = << >> THEN << >>
    ELSE (IF Head(nodes).kind = "text" THEN <<Head(nodes)>>
          ELSE IF IsSidebar(Head(nodes)) THEN << >>
          ELSE <<Tag(Head(nodes).name, StripAttributes(Head(nodes).attrs),
                     rewrite_str(Head(nodes).kids))>>)
         \o rewrite_str(Tail(nodes))

\* remove_ids
remove_ids(html) ==
    IF Ambiguous(html) THEN [ok |-> FALSE, html |-> << >>, err |-> "Error in rewriter"]
    ELSE [ok |-> TRUE, html |-> rewrite_str(html), err |-> ""]

\* ---- the fragments remove_ids is applied to
AttrLists ==
    {<< >>,
     <<Attr("id", <<"x1">>), Attr("href", <<"/a">>)>>,
     <<Attr("class", <<"govuk">>), Attr("aria-labelledby", <<"x1">>),
       Attr("aria-hidden", <<"true">>)>>,
     <<Attr("class", <<"gem-c-contextual-sidebar">>)>>,
     <<Attr("class", <<"govuk", "gem-c-contextual-sidebar">>), Attr("id", <<"x2">>)>>,
     <<Attr("data-id", <<"x3">>), Attr("class", <<"gem-c-contextual-sidebar-wide">>)>>}

\* The elements without element children, and a select the rewriter fails on
Leaves ==
    {Tag("div", a, k) : a \in AttrLists, k \in {<< >>, <<TextNode("text")>>}}
    \cup {Tag("select", << >>, <<Tag("xmp", << >>, << >>)>>)}

\* The elements of at most d levels of element children: an element around
\* one of a level less, alone or between a text and an element with an id.
RECURSIVE Elements(_)
Elements(d) ==
    IF d = 0 THEN Leaves
    ELSE Leaves \cup
         {Tag("div", a, k) :
             a \in AttrLists,
             k \in UNION {{<<e>>,
                           <<TextNode("before"), e,
                             Tag("p", <<Attr("id", <<"x4">>)>>, <<TextNode("after")>>)>>} :
                          e \in Elements(d - 1)}}

Fragments == {<<e>> : e \in Elements(MaxDepth)}

CanonIdle == frag = << >> /\ passes = << >>

CanonStart == frag \in Fragments /\ passes = << >>

\* One more call of remove_ids: on the fragment, then on the last output.
Canonicalize ==
    /\ frag # << >>
    /\ Len(passes) < MaxPasses
    /\ passes # << >> => passes[Len(passes)].ok
    /\ passes' = Append(passes,
                     remove_ids(IF passes = << >> THEN frag
                                ELSE passes[Len(passes)].html))
    /\ UNCHANGED <<frag, orchVars, treeVars, crawlVars, parseVars, recvVars>>

NextCanon == Canonicalize

\* ------------------------------------------------------------------------
\* One crawl: fetch_change of src/src/bin/server.rs over a small web, with
\* retrieve_doc and DocContent (src/src/lib.rs, src/src/doc.rs) and the
\* write_out closure of handle_change.
\* ------------------------------------------------------------------------
TrustedHost == "www.gov.uk"
AssetsHost == "assets.publishing.service.gov.uk"

Url(host, path) == [host |-> host, path |-> path]

\* https://www.gov.uk/guidance/doc, /guidance/annex.htm and / are pages;
\* https://www.gov.uk/media/file.pdf and
\* https://assets.publishing.service.gov.uk/media/a.pdf are files.
DocUrl == Url(TrustedHost, <<"", "guidance", "doc">>)
AnnexUrl == Url(TrustedHost, <<"", "guidance", "annex.htm">>)
RootUrl == Url(TrustedHost, <<"", "">>)
FileUrl == Url(TrustedHost, <<"", "media", "file.pdf">>)
AssetUrl == Url(AssetsHost, <<"", "media", "a.pdf">>)
\* https://www.gov.uk/guidance/broken is a page the rewriter fails on.
BrokenUrl == Url(TrustedHost, <<"", "guidance", "broken">>)
HtmlUrls == {DocUrl, AnnexUrl, RootUrl, BrokenUrl}
Urls == HtmlUrls \cup {FileUrl, AssetUrl}

\* An href is an absolute URL ("https://host/path"), an absolute path
\* ("/media/file.pdf") or a relative path ("annex.htm").
AbsHref(url) == [kind |-> "abs", host |-> url.host, path |-> url.path]
RootedHref(path) == [kind |-> "rooted", path |-> path]
RelHref(segs) == [kind |-> "rel", segs |-> segs]

\* url.join(href): a relative path replaces the last segment of the base.
Join(base, href) ==
    CASE href.kind = "abs" -> Url(href.host, href.path)
      [] href.kind = "rooted" -> Url(base.host, href.path)
      [] href.kind = "rel" ->
            Url(base.host, SubSeq(base.path, 1, Len(base.path) - 1) \o href.segs)

\* The attachment links a page can carry, in document order
LinkLists ==
    {<< >>,
     <<RelHref(<<"annex.htm">>)>>,
     <<RootedHref(FileUrl.path), AbsHref(AssetUrl)>>,
     <<AbsHref(AssetUrl), RootedHref(FileUrl.path)>>,
     <<AbsHref(DocUrl)>>,
     <<RootedHref(FileUrl.path), RelHref(<<"annex.htm">>), AbsHref(FileUrl)>>,
     <<RootedHref(RootUrl.path)>>,
     <<RelHref(<<"broken">>), RootedHref(FileUrl.path)>>}

Sites ==
    {s \in [HtmlUrls -> LinkLists] : s[RootUrl] = << >> /\ s[BrokenUrl] = << >>}

\* The last segment of a URL's path, for the bodies below
LastSegment(url) == url.path[Len(url.path)]

\* The <main> element of a page: its nodes in document order.
PageMain(url) ==
    <<Tag("main", <<Attr("id", <<"content">>)>>,
          <<TextNode("content of " \o LastSegment(url)),
            Tag("div", <<Attr("class", <<"gem-c-contextual-sidebar">>)>>,
                <<TextNode("related")>>)>>
          \o (IF url = BrokenUrl
              THEN <<Tag("select", << >>, <<Tag("xmp", << >>, << >>)>>)>>
              ELSE << >>))>>

\* What a GET of the URL answers
Response(s, url) ==
    IF url \in HtmlUrls
    THEN [content_type |-> "text/html", main |-> PageMain(url),
          links |-> s[url], body |-> ""]
    ELSE [content_type |-> "application/pdf", main |-> << >>,
          links |-> << >>, body |-> "bytes of " \o LastSegment(url)]

\* DocContent::html(html, Some(url)) and DocContent::Other(bytes)
DiffableHtml(main, attachments) ==
    [is_html |-> TRUE, bytes |-> main, attachments |-> attachments]
Other(bytes) == [is_html |-> FALSE, bytes |-> bytes, attachments |-> << >>]

\* DocContent::html: Err when remove_ids fails
DocContentHtml(response, url) ==
    LET canonical == remove_ids(response.main)
    IN  IF canonical.ok
        THEN [ok |-> TRUE, err |-> "",
              content |-> DiffableHtml(canonical.html,
                  [i \in 1..Len(response.links) |-> Join(url, response.links[i])])]
        ELSE [ok |-> FALSE, err |-> canonical.err, content |-> Other("")]

\* A mutant of IsTextHtml: no response is taken for a page.
IsTextHtmlNever(content_type) == FALSE

IsTextHtml(content_type) == content_type = "text/html"

\* retrieve_doc(url), for a response that arrived: the Doc, or the error of
\* DocContent::html
retrieve_doc(s, url) ==
    LET response == Response(s, url)
        html == DocContentHtml(response, url)
    IN  IF IsTextHtml(response.content_type)
        THEN [ok |-> html.ok, err |-> html.err,
              doc |-> [url |-> url, content |-> html.content]]
        ELSE [ok |-> TRUE, err |-> "",
              doc |-> [url |-> url, content |-> Other(response.body)]]

\* A mutant of attachments: no document has any.
attachmentsNone(content) == None

\* DocContent::attachments
attachments(content) ==
    IF content.is_html THEN Some(content.attachments) ELSE None

\* Option::unwrap_or_default
UnwrapOrDefault(o) == IF IsSome(o) THEN Unwrap(o) ELSE << >>

\* Path::file_stem of the names of this web: the name up to its last '.'
FileStem(name) ==
    CASE name = "annex.htm" -> "annex"
      [] name = "file.pdf" -> "file"
      [] name = "a.pdf" -> "a"
      [] OTHER -> name

\* Path::file_name is the last segment that is not empty, if there is one
\* (a trailing '/' is not a component).
FileNameAt(path) ==
    IF \E i \in 1..Len(path) : path[i] # ""
    THEN CHOOSE i \in 1..Len(path) :
            path[i] # "" /\ \A j \in (i + 1)..Len(path) : path[j] = ""
    ELSE 0

\* path.set_extension("html") returns false when there is no file name
HasFileName(path) == FileNameAt(path) # 0

\* path.set_extension("html"), when it returns true
SetExtensionHtml(path) ==
    SubSeq(path, 1, FileNameAt(path) - 1)
        \o <<FileStem(path[FileNameAt(path)]) \o ".html">>

\* A mutant of HostCheck: every host is crawled.
HostCheckAny(url) == TRUE

\* url.host_str() == Some("www.gov.uk")
HostCheck(url) == url.host = TrustedHost

CrawlIdle ==
    /\ site = [u \in {} |-> << >>]
    /\ urls = << >>
    /\ trail = << >>
    /\ wtree = EmptyTree
    /\ fc = [pc |-> "idle", err |-> ""]

\* fetch_change(url, write_out): the queue holds the seed.
CrawlStart ==
    /\ site \in Sites
    /\ urls \in {<<u>> : u \in Urls}
    /\ trail = << >>
    /\ wtree = EmptyTree
    /\ fc = [pc |-> "loop", err |-> ""]

\* A mutant of Extend: the URLs found are put at the front of the queue.
ExtendFront(queue, found) == found \o queue

\* urls.extend(..) on the VecDeque: the URLs found go to the back, in order
Extend(queue, found) == queue \o found

\* The URLs retrieved so far, in order
Retrieved == SelectSeq(trail, LAMBDA t : t.did # "skip")

\* One turn of the loop on a URL of another host: `continue`.
CrawlSkip ==
    /\ fc.pc = "loop"
    /\ urls # << >>
    /\ ~HostCheck(Head(urls))
    /\ urls' = Tail(urls)
    /\ trail' = Append(trail, [did |-> "skip", url |-> Head(urls),
                               doc |-> None, path |-> None,
                               added |-> << >>])
    /\ UNCHANGED <<site, wtree, fc, orchVars, treeVars, parseVars, canonVars, recvVars>>

\* One turn of the loop on a URL of the trusted host: retrieve_doc (whose
\* error ends fetch_change), extend
\* the queue, set the extension of an HTML document's path, write_out.
CrawlFetch ==
    /\ fc.pc = "loop"
    /\ urls # << >>
    /\ HostCheck(Head(urls))
    /\ Len(Retrieved) < MaxFetches
    /\ \E arrives \in BOOLEAN :
          LET url == Head(urls)
              r == retrieve_doc(site, url)
              doc == r.doc
              path == IF doc.content.is_html
                      THEN SetExtensionHtml(doc.url.path) ELSE doc.url.path
              w == add_to_tree(wtree, path, Blob(doc.content.bytes), FileMode, 0)
              added == UnwrapOrDefault(attachments(doc.content))
          IN  IF ~arrives
              THEN /\ fc' = [pc |-> "returned", err |-> "Error retrieving"]
                   /\ trail' = Append(trail, [did |-> "failed", url |-> url,
                                              doc |-> None, path |-> None,
                                              added |-> << >>])
                   /\ urls' = Tail(urls)
                   /\ wtree' = wtree
              ELSE IF ~r.ok
              THEN /\ fc' = [pc |-> "returned", err |-> r.err]
                   /\ trail' = Append(trail, [did |-> "render failed", url |-> url,
                                              doc |-> None, path |-> None,
                                              added |-> << >>])
                   /\ urls' = Tail(urls)
                   /\ wtree' = wtree
              ELSE /\ urls' = Extend(Tail(urls), added)
                   /\ IF doc.content.is_html /\ ~HasFileName(doc.url.path)
                      THEN /\ fc' = [pc |-> "panicked", err |-> "assertion failed"]
                           /\ trail' = Append(trail,
                                 [did |-> "panic", url |-> url,
                                  doc |-> Some(doc), path |-> None,
                                  added |-> added])
                           /\ wtree' = wtree
                      ELSE /\ trail' = Append(trail,
                                 [did |-> IF w.ok THEN "wrote" ELSE "write failed",
                                  url |-> url, doc |-> Some(doc),
                                  path |-> Some(path), added |-> added])
                           /\ wtree' = w.tree
                           /\ fc' = IF w.ok THEN fc
                                    ELSE [pc |-> "returned", err |-> w.err]
    /\ UNCHANGED <<site, orchVars, treeVars, parseVars, canonVars, recvVars>>

\* The queue is empty: Ok(()).
CrawlDone ==
    /\ fc.pc = "loop"
    /\ urls = << >>
    /\ fc' = [pc |-> "returned", err |-> "ok"]
    /\ UNCHANGED <<site, urls, trail, wtree, orchVars, treeVars, parseVars, canonVars, recvVars>>

NextCrawl ==
    \/ CrawlSkip
    \/ CrawlFetch
    \/ CrawlDone

\* ------------------------------------------------------------------------
\* The email parser: src/src/email_update.rs over small emails.
\*
\* An HTML document is the sequence of the elements of its body, each a tag
\* and its child nodes; a child node is a text node or an element holding
\* one text node.  The zero width space (U+200B) of the headings is written
\* <U+200B>.
\* ------------------------------------------------------------------------
Text(str) == [kind |-> "text", tag |-> "", href |-> None, s |-> str]
Elem(tag, href, str) == [kind |-> "elem", tag |-> tag, href |-> href, s |-> str]
Element(tag, kids) == [tag |-> tag, kids |-> kids]

\* The value of an href attribute: an absolute URL or a path alone.
Href(absolute, host, path, query, fragment) ==
    [absolute |-> absolute, host |-> host, path |-> path,
     query |-> query, fragment |-> fragment]

SingleTitle == "Update on GOV.<U+200B>UK."
BulkTitle == "Update from GOV.<U+200B>UK for:"
DailyTitle == "Daily update from GOV.<U+200B>UK for:"
InfoTitles ==
    {"This link will stop working after 7 days.",
     "You<U+2019>ll get an email from GOV.<U+200B>UK each time we add or update a page about:"}
UpdateTitles == {SingleTitle, BulkTitle, DailyTitle}

\* The first paragraphs the emails of the model start with: the headings
\* of the templates, the single update heading followed by a line break,
\* and headings that are no template's ("Update on GOV.UK." has no zero
\* width space).
Titles ==
    UpdateTitles \cup InfoTitles
        \cup {SingleTitle \o "\n", "Update on GOV.UK.", "Welcome to GOV.<U+200B>UK"}

\* str::trim_end, on the first paragraphs of the model
trim_end(str) == IF str = SingleTitle \o "\n" THEN SingleTitle ELSE str

\* Element::inner_html: the child nodes in order (attributes left out)
RECURSIVE inner_html_of(_)
inner_html_of(kids) ==
    IF kids = << >> THEN ""
    ELSE (IF Head(kids).kind = "text" THEN Head(kids).s
          ELSE "<" \o Head(kids).tag \o ">" \o Head(kids).s
                   \o "</" \o Head(kids).tag \o ">")
         \o inner_html_of(Tail(kids))
inner_html(el) == inner_html_of(el.kids)

\* Element::text: the text nodes below the element, in order
text(el) == [i \in 1..Len(el.kids) |-> el.kids[i].s]

\* ---- the sections of an update email, by what is wrong with them
GoodHref(k) ==
    Href(TRUE, TrustedHost, <<"", "guidance", "doc" \o ToString(k)>>, None, None)
TrackedHref(k) ==
    Href(TRUE, TrustedHost, <<"", "guidance", "doc" \o ToString(k)>>,
         Some("utm_source=email"), Some("history"))
OffsiteHref(k) ==
    Href(TRUE, "www.example.com", <<"", "guidance", "doc" \o ToString(k)>>, None, None)
RelativeHref(k) ==
    Href(FALSE, "", <<"", "guidance", "doc" \o ToString(k)>>, None, None)

Faults ==
    {"good", "tracked", "offsite", "relative", "no link", "no href", "span",
     "empty heading", "no summary", "one text", "no separator", "why"}

\* The first child nodes of the heading of the k-th section
HeadingKids(fault, k) ==
    CASE fault = "tracked" -> <<Elem("a", Some(TrackedHref(k)), "Doc " \o ToString(k))>>
      [] fault = "offsite" -> <<Elem("a", Some(OffsiteHref(k)), "Doc " \o ToString(k))>>
      [] fault = "relative" -> <<Elem("a", Some(RelativeHref(k)), "Doc " \o ToString(k))>>
      [] fault = "no link" -> <<Text("Doc " \o ToString(k))>>
      [] fault = "no href" -> <<Elem("a", None, "Doc " \o ToString(k))>>
      [] fault = "span" -> <<Elem("span", None, "Doc " \o ToString(k))>>
      [] fault = "empty heading" -> << >>
      [] fault = "why" -> <<Text("Why am I getting this email?")>>
      [] OTHER -> <<Elem("a", Some(GoodHref(k)), "Doc " \o ToString(k))>>

SummaryP(k) == Element("p", <<Text("Summary of doc " \o ToString(k))>>)
ChangeP(fault, k) ==
    Element("p", IF fault = "one text" THEN <<Elem("b", None, "Change made:")>>
                 ELSE <<Elem("b", None, "Change made:"),
                        Text("change " \o ToString(k))>>)
TimeP(k) ==
    Element("p", <<Elem("b", None, "Time updated:"),
                   Text("10:3" \o ToString(k) \o "am")>>)

\* The k-th section: its heading (a <p> in the single update template, an
\* <h2> in the digest), the three paragraphs and the separator.
Section(layout, fault, k) ==
    <<Element(IF layout = "single" THEN "p" ELSE "h2", HeadingKids(fault, k))>>
    \o (IF fault = "why"
        THEN <<Element("p", <<Text("You asked for these emails.")>>)>>
        ELSE (IF fault = "no summary" THEN << >> ELSE <<SummaryP(k)>>)
             \o <<ChangeP(fault, k), TimeP(k)>>
             \o (IF fault = "no separator" THEN << >> ELSE <<Element("hr", << >>)>>))

RECURSIVE Sections(_, _, _)
Sections(layout, faults, k) ==
    IF k > Len(faults) THEN << >>
    ELSE Section(layout, faults[k], k) \o Sections(layout, faults, k + 1)

CategoryH2 == Element("h2", <<Text("News and communications")>>)

\* The body of an email: the first paragraph, the category heading of a
\* digest, the sections.
Body(title, layout, faults) ==
    (IF IsSome(title) THEN <<Element("p", <<Text(Unwrap(title))>>)>> ELSE << >>)
    \o (IF layout = "bulk" THEN <<CategoryH2>> ELSE << >>)
    \o Sections(layout, faults, 1)

FaultLists == UNION {[1..n -> Faults] : n \in 0..MaxSections}

\* The emails: a text/plain part alone, or with a text/html part.
Emls ==
    {[mimetypes |-> <<"text/plain">>, title |-> None, layout |-> "single",
      faults |-> << >>]}
    \cup {[mimetypes |-> <<"text/plain", "text/html">>, title |-> t,
           layout |-> l, faults |-> f] :
            t \in {None} \cup {Some(x) : x \in Titles},
            l \in {"single", "bulk"}, f \in FaultLists}

\* ---- results
POk(updates) == [status |-> "ok", updates |-> updates, err |-> ""]
PErr(e) == [status |-> "err", updates |-> << >>, err |-> e]
PPanic(e) == [status |-> "panic", updates |-> << >>, err |-> e]

\* anyhow's Context: the message put before the error it wraps
WithContext(r, c) ==
    IF r.status = "err" THEN [r EXCEPT !.err = c \o ": " \o @] ELSE r

\* A mutant of HostIsTrusted: every host is taken.
HostIsAny(host) == TRUE

\* url.host_str() == Some("www.gov.uk")
HostIsTrusted(host) == host = TrustedHost

\* Url::set_query
set_query(url, query) == [url EXCEPT !.query = query]

\* Url::set_fragment
set_fragment(url, fragment) == [url EXCEPT !.fragment = fragment]

\* GovUkChange::from_strs
from_strs(change, href, updated_at) ==
    IF ~href.absolute THEN PErr("relative URL without a base")
    ELSE IF ~HostIsTrusted(href.host)
         THEN PErr("Unknown host : Some(\"" \o href.host \o "\")")
         ELSE POk(<<[change |-> change,
                     url |-> set_fragment(
                                set_query([host |-> href.host, path |-> href.path,
                                           query |-> href.query,
                                           fragment |-> href.fragment], None),
                                None),
                     updated_at |-> updated_at,
                     category |-> None]>>)

\* parse_common: the next three elements are the summary, the change
\* description and the time stamp.
parse_common(ps) ==
    LET fail(e) == [ok |-> FALSE, change |-> "", updated_at |-> "",
                    rest |-> << >>, err |-> e]
    IN  IF Len(ps) < 1 THEN fail("Missing third <p> with doc summary")
        ELSE IF Len(ps) < 2 THEN fail("Missing forth <p> with change description")
        ELSE IF Len(text(ps[2])) < 2 THEN fail("Missing change description contents")
        ELSE IF Len(ps) < 3 THEN fail("Missing fifth <p> with updated timestamp")
        ELSE IF Len(text(ps[3])) < 2 THEN fail("Missing timestamp <p> contents")
        ELSE [ok |-> TRUE, change |-> text(ps[2])[2],
              updated_at |-> text(ps[3])[2],
              rest |-> SubSeq(ps, 4, Len(ps)), err |-> ""]

\* parse_single, on the paragraphs after the first
parse_single(ps) ==
    IF ps = << >> THEN PErr("Missing second <p> with doc title")
    ELSE IF Head(ps).kids = << >> THEN PErr("Empty doc title <p>")
    ELSE IF Head(ps).kids[1].kind # "elem"
         THEN PPanic("called Option::unwrap() on a None value")
    ELSE IF Head(ps).kids[1].href = None THEN PErr("No link on doc title")
    ELSE LET c == parse_common(Tail(ps))
         IN  IF ~c.ok THEN PErr(c.err)
             ELSE from_strs(c.change, Unwrap(Head(ps).kids[1].href), c.updated_at)

\* parse_bulk_update on the h2 at position i of the body: an Option of a
\* change event in `updates`, or an error.
parse_bulk_update(body, i) ==
    LET h2 == body[i]
    IN  IF h2.kids = << >> THEN PErr("update heading missing link")
        ELSE IF h2.kids[1] = Text("Why am I getting this email?") THEN POk(None)
        ELSE IF h2.kids[1].kind # "elem"
             THEN PErr("expected <a> elem, found Text(\"" \o h2.kids[1].s \o "\")")
        ELSE IF h2.kids[1].tag # "a"
             THEN PErr("Condition failed: a.value().name() == \"a\"")
        ELSE IF h2.kids[1].href = None THEN PErr("missing href")
        ELSE LET c == parse_common(SubSeq(body, i + 1, Len(body)))
             IN  IF ~c.ok THEN PErr(c.err)
                 ELSE IF c.rest = << >> \/ Head(c.rest).tag # "hr"
                      THEN PErr("Condition failed: siblings.next() == Some(\"hr\")")
                      ELSE from_strs(c.change, Unwrap(h2.kids[1].href), c.updated_at)

\* A mutant of WithCategory: the event keeps no category.
WithoutCategory(update, category) == update

\* update.category = Some(category.clone())
WithCategory(update, category) == [update EXCEPT !.category = Some(category)]

\* The loop of parse_bulk over the h2 elements at the positions `at`
RECURSIVE parse_bulk_from(_, _, _, _)
parse_bulk_from(body, at, category, updates) ==
    IF at = << >> THEN POk(updates)
    ELSE LET r == WithContext(parse_bulk_update(body, Head(at)),
                              "Something missing in part of a bulk update")
         IN  IF r.status # "ok" THEN r
             ELSE parse_bulk_from(body, Tail(at), category,
                     IF IsSome(r.updates)
                     THEN Append(updates, WithCategory(Unwrap(r.updates), category))
                     ELSE updates)

\* The positions of the elements of a tag, in document order
RECURSIVE Positions(_, _, _)
Positions(body, tag, i) ==
    IF i > Len(body) THEN << >>
    ELSE (IF body[i].tag = tag THEN <<i>> ELSE << >>) \o Positions(body, tag, i + 1)

\* parse_bulk
parse_bulk(body) ==
    LET h2s == Positions(body, "h2", 1)
    IN  IF h2s = << >> THEN PErr("Expected section heading")
        ELSE parse_bulk_from(body, Tail(h2s), inner_html(body[Head(h2s)]), << >>)

\* A mutant of UnexpectedTitle: an unknown heading is an email without
\* change events.
UnexpectedTitleIgnored(title) == POk(<< >>)

\* bail!("Unexpected email title {:?}", title)
UnexpectedTitle(title) == PErr("Unexpected email title \"" \o title \o "\"")

\* GovUkChange::from_email_html
from_email_html(body) ==
    LET ps == SelectSeq(body, LAMBDA el : el.tag = "p")
    IN  IF ps = << >> THEN PErr("Missing first <p> with email subject")
        ELSE LET email_title == trim_end(inner_html(Head(ps)))
             IN  CASE email_title = SingleTitle -> parse_single(Tail(ps))
                   [] email_title = BulkTitle -> parse_bulk(body)
                   [] email_title = DailyTitle -> parse_bulk(body)
                   [] email_title \in InfoTitles -> POk(<< >>)
                   [] OTHER -> UnexpectedTitle(email_title)

\* GovUkChange::from_eml: the body of the first text/html part
GovUkChange_from_eml(email) ==
    IF \E i \in 1..Len(email.mimetypes) : email.mimetypes[i] = "text/html"
    THEN from_email_html(Body(email.title, email.layout, email.faults))
    ELSE PErr("Email doesn't have text/html part")

ParseIdle == eml = None /\ answer = None

ParseStart == eml \in {Some(e) : e \in Emls} /\ answer = None

\* One call of GovUkChange::from_eml
ParseEmail ==
    /\ IsSome(eml)
    /\ answer = None
    /\ answer' = Some(GovUkChange_from_eml(Unwrap(eml)))
    /\ UNCHANGED <<eml, orchVars, treeVars, crawlVars, canonVars, recvVars>>

NextParse == ParseEmail

\* ------------------------------------------------------------------------
\* The SMTP receivers.  src/src/main.rs writes an email to a temporary file
\* and renames it to its inbox path; the receiver of src/src/bin/server.rs
\* writes to the inbox path itself, and runs in the thread of the
\* orchestrator, between two passes.
\* An address is the sequence of its '@'-separated parts, a file name the
\* sequence of its '.'-separated parts, a joined recipient list the sequence
\* of the addresses and the separators between them.  A path below the inbox
\* directory is <<sender directory, recipient directory, file name>>.  The
\* calls the mailin session makes on the handler are those of its interface:
\* data_start at DATA, data for each line, data_end at the final dot, and no
\* further call of a transaction whose data returned an error.
\* ------------------------------------------------------------------------
GovUkSender == <<"no-reply", "mail.notifications.service.gov.uk">>
Senders == {GovUkSender, <<"postmaster">>}
Recipients == <<"a@example.org", "b@example.org">>

\* Utc::now(): each call returns a later instant than the call before
Instants == [secs : 0..MaxSecs, frac : {0, 3, 7}]
After(now, last) ==
    IF last = None THEN TRUE
    ELSE \/ now.secs > Unwrap(last).secs
         \/ now.secs = Unwrap(last).secs /\ now.frac > Unwrap(last).frac

\* to_rfc3339_opts(SecondsFormat::AutoSi, true): the fraction of the second
\* is printed, after a '.', when it is not zero
to_rfc3339_opts(t) ==
    IF t.frac = 0 THEN << <<ToString(t.secs), "Z">> >>
                  ELSE << <<ToString(t.secs)>>, <<ToString(t.frac), "Z">> >>

\* Path::with_extension: what follows the last '.' of the file name is
\* replaced by the extension; a name without '.' gets the extension appended.
with_extension(name, ext) ==
    IF Len(name) > 1 THEN SubSeq(name, 1, Len(name) - 1) \o <<ext>>
                     ELSE name \o <<ext>>

\* to.join(",")
JoinComma(to) ==
    [i \in 1..(2 * Len(to) - 1) |-> IF i % 2 = 1 THEN to[(i + 1) \div 2] ELSE ","]

\* from.split('@').nth(1)
from_domain(from) == IF Len(from) >= 2 THEN Some(<<from[2]>>) ELSE None

\* from_domain.unwrap_or(from)
unwrap_or(o, d) == IF IsSome(o) THEN Unwrap(o) ELSE d

inbox_path_for_email(from, to, now) ==
    <<unwrap_or(from_domain(from), from), JoinComma(to),
      with_extension(to_rfc3339_opts(now), <<"eml">>)>>

\* temp_file::empty(): a file of the temporary directory
TempPath == << <<"tmp">>, << >>, << <<"tempfile">> >> >>

\* EMAILS_FROM_GOVUK_PATH: the directory the orchestrator reads
Pending(fs) == {q \in DOMAIN fs : q[1] = <<GovUkSender[2]>>}

\* ---- the file system
Put(fs, q, bytes) == [r \in DOMAIN fs \cup {q} |-> IF r = q THEN bytes ELSE fs[r]]
Remove(fs, q) == [r \in DOMAIN fs \ {q} |-> fs[r]]

\* OpenOptions .write(true).create(true).open(path) of FileLock::lock: the
\* file is created when absent and keeps its content otherwise
OpenForWrite(fs, q) == IF q \in DOMAIN fs THEN fs ELSE Put(fs, q, << >>)

\* write_all at the position of the file handle
WriteAt(fs, q, pos, line) ==
    Put(fs, q, SubSeq(fs[q], 1, pos) \o <<line>> \o SubSeq(fs[q], pos + 2, Len(fs[q])))

\* fs::rename(from, to): to is replaced when it exists
RenameFile(fs, from, to) ==
    IF from \in DOMAIN fs THEN Put(Remove(fs, from), to, fs[from]) ELSE fs

\* A mutant of LockedPath: the handle is opened on the inbox path.
LockedPathFinal(temp, path) == path

\* EmailWrite::create of main.rs: the handle that is written is that of
\* FileLock::lock(temp_file.path()..)
LockedPath(temp, path) == temp

NoSession == [pc |-> "off", n |-> 0, sent |-> << >>, writer |-> None, reply |-> ""]

RecvIdle ==
    /\ files = [q \in {} |-> << >>]
    /\ sess = NoSession
    /\ clock = None
    /\ delivered = {}
    /\ seen = {}

RecvStart ==
    /\ files = [q \in {} |-> << >>]
    /\ sess = [NoSession EXCEPT !.pc = "closed"]
    /\ clock = None
    /\ delivered = {}
    /\ seen = {}

\* ---- src/src/main.rs
\* socket.incoming(): receive_updates_on_socket builds a handler with no
\* writer and greets.
Connect ==
    /\ sess.pc = "closed"
    /\ sess' = [sess EXCEPT !.pc = "command", !.sent = << >>, !.writer = None,
                            !.reply = ""]
    /\ UNCHANGED <<files, clock, delivered, seen, orchVars, treeVars, crawlVars,
                   parseVars, canonVars>>

\* data_start: the path is computed from the envelope and the clock, and
\* EmailWrite::create makes the temporary file and locks it; self.data is
\* replaced, which drops a writer left from a failed transaction.
data_start ==
    /\ sess.pc = "command"
    /\ sess.n < MaxMails
    /\ \E from \in Senders, now \in Instants, created \in BOOLEAN :
         LET path == inbox_path_for_email(from, Recipients, now)
             file == LockedPath(TempPath, path)
         IN  /\ After(now, clock)
             /\ clock' = Some(now)
             /\ IF created
                THEN /\ files' = OpenForWrite(Put(files, TempPath, << >>), file)
                     /\ sess' = [sess EXCEPT !.pc = "data", !.n = @ + 1,
                                   !.sent = << >>, !.reply = "OK",
                                   !.writer = Some([path |-> path, file |-> file,
                                                    pos |-> 0])]
                ELSE /\ files' = files
                     /\ sess' = [sess EXCEPT !.n = @ + 1, !.sent = << >>,
                                   !.reply = "INTERNAL_ERROR"]
    /\ UNCHANGED <<delivered, seen, orchVars, treeVars, crawlVars, parseVars,
                   canonVars>>

\* data: one line of the message is written to the handle; when the write
\* fails the transaction is over and the writer stays in self.data.
data ==
    /\ sess.pc = "data"
    /\ Len(sess.sent) < MaxLines
    /\ \E written \in BOOLEAN :
         LET w == Unwrap(sess.writer) IN
         IF written
         THEN /\ files' = WriteAt(files, w.file, w.pos, "line")
              /\ sess' = [sess EXCEPT !.sent = Append(@, "line"), !.reply = "",
                            !.writer = Some([w EXCEPT !.pos = @ + 1])]
         ELSE /\ files' = files
              /\ sess' = [sess EXCEPT !.pc = "command", !.reply = "error"]
    /\ UNCHANGED <<clock, delivered, seen, orchVars, treeVars, crawlVars,
                   parseVars, canonVars>>

\* data_end: the writer is taken, EmailWrite::end flushes and renames the
\* temporary file to the path; the TempFile is dropped, which removes the
\* temporary file if it is still there.
data_end ==
    /\ sess.pc = "data"
    /\ \E done \in BOOLEAN :
         LET w == Unwrap(sess.writer) IN
         IF done
         THEN /\ files' = Remove(RenameFile(files, TempPath, w.path), TempPath)
              /\ delivered' = delivered \cup {[path |-> w.path, bytes |-> sess.sent]}
              /\ sess' = [sess EXCEPT !.pc = "command", !.writer = None,
                            !.reply = "OK"]
         ELSE /\ files' = Remove(files, TempPath)
              /\ delivered' = delivered
              /\ sess' = [sess EXCEPT !.pc = "command", !.writer = None,
                            !.reply = "INTERNAL_ERROR"]
    /\ UNCHANGED <<clock, seen, orchVars, treeVars, crawlVars, parseVars,
                   canonVars>>

\* receive_updates_on_socket returns: the client quit or hung up, the read
\* timed out or a reply could not be written.  The handler is dropped, and
\* with it the writer and its TempFile.
Disconnect ==
    /\ sess.pc \in {"command", "data"}
    /\ files' = Remove(files, TempPath)
    /\ sess' = [sess EXCEPT !.pc = "closed", !.writer = None,
                  !.reply = IF sess.pc = "data" THEN "dropped" ELSE ""]
    /\ UNCHANGED <<clock, delivered, seen, orchVars, treeVars, crawlVars,
                   parseVars, canonVars>>

NextRecv ==
    \/ Connect
    \/ data_start
    \/ data
    \/ data_end
    \/ Disconnect

\* ---- src/src/bin/server.rs
\* data_start: EmailWrite::create locks the inbox path itself, which creates
\* the file there.
srv_data_start ==
    /\ sess.pc = "command"
    /\ sess.n < MaxMails
    /\ \E from \in Senders, now \in Instants, created \in BOOLEAN :
         LET path == inbox_path_for_email(from, Recipients, now) IN
             /\ After(now, clock)
             /\ clock' = Some(now)
             /\ IF created
                THEN /\ files' = OpenForWrite(files, path)
                     /\ sess' = [sess EXCEPT !.pc = "data", !.n = @ + 1,
                                   !.sent = << >>, !.reply = "OK",
                                   !.writer = Some([path |-> path, file |-> path,
                                                    pos |-> 0])]
                ELSE /\ files' = files
                     /\ sess' = [sess EXCEPT !.n = @ + 1, !.sent = << >>,
                                   !.reply = "INTERNAL_ERROR"]
    /\ UNCHANGED <<delivered, seen, orchVars, treeVars, crawlVars, parseVars,
                   canonVars>>

\* data: as in main.rs, on the handle of the inbox path
srv_data ==
    /\ sess.pc = "data"
    /\ Len(sess.sent) < MaxLines
    /\ \E written \in BOOLEAN :
         LET w == Unwrap(sess.writer) IN
         IF written
         THEN /\ files' = WriteAt(files, w.file, w.pos, "line")
              /\ sess' = [sess EXCEPT !.sent = Append(@, "line"), !.reply = "",
                            !.writer = Some([w EXCEPT !.pos = @ + 1])]
         ELSE /\ files' = files
              /\ sess' = [sess EXCEPT !.pc = "command", !.reply = "error"]
    /\ UNCHANGED <<clock, delivered, seen, orchVars, treeVars, crawlVars,
                   parseVars, canonVars>>

\* data_end: the writer is taken and flushed
srv_data_end ==
    /\ sess.pc = "data"
    /\ \E flushed \in BOOLEAN :
         LET w == Unwrap(sess.writer) IN
         /\ delivered' = IF flushed
                         THEN delivered \cup {[path |-> w.path, bytes |-> sess.sent]}
                         ELSE delivered
         /\ sess' = [sess EXCEPT !.pc = "command", !.writer = None,
                       !.reply = IF flushed THEN "OK" ELSE "INTERNAL_ERROR"]
    /\ UNCHANGED <<files, clock, seen, orchVars, treeVars, crawlVars, parseVars,
                   canonVars>>

\* receive_updates_on_socket returns; dropping the writer prints a line.
srv_disconnect ==
    /\ sess.pc \in {"command", "data"}
    /\ sess' = [sess EXCEPT !.pc = "closed", !.writer = None,
                  !.reply = IF sess.pc = "data" THEN "dropped" ELSE ""]
    /\ UNCHANGED <<files, clock, delivered, seen, orchVars, treeVars, crawlVars,
                   parseVars, canonVars>>

\* The loop of main: process_updates_in_dir before the next accept.
\* process_email_update_file reads one pending file; it is archived when it
\* was processed, and main panics when it was not.
srv_process ==
    /\ sess.pc = "closed"
    /\ \E q \in Pending(files), processed \in BOOLEAN :
         /\ seen' = seen \cup {[path |-> q, bytes |-> files[q]]}
         /\ IF processed
            THEN files' = Remove(files, q) /\ sess' = sess
            ELSE files' = files /\ sess' = [sess EXCEPT !.pc = "panicked"]
    /\ UNCHANGED <<clock, delivered, orchVars, treeVars, crawlVars, parseVars,
                   canonVars>>

\* socket.accept() once the pass is over
srv_accept ==
    /\ sess.pc = "closed"
    /\ Pending(files) = {}
    /\ sess' = [sess EXCEPT !.pc = "command", !.sent = << >>, !.writer = None,
                            !.reply = ""]
    /\ UNCHANGED <<files, clock, delivered, seen, orchVars, treeVars, crawlVars,
                   parseVars, canonVars>>

NextServer ==
    \/ srv_process
    \/ srv_accept
    \/ srv_data_start
    \/ srv_data
    \/ srv_data_end
    \/ srv_disconnect

\* ------------------------------------------------------------------------
\* The orchestrator: main, process_updates_in_dir, process_email_update_file
\* and handle_change of src/src/bin/server.rs.
\* ------------------------------------------------------------------------
Emails == 1..NumEmails

\* What an email file holds, as far as the orchestrator can tell: whether
\* GovUkChange::from_eml accepts it, and how many change events it carries.
EmailBodies ==
    {[parses |-> FALSE, n |-> 0]} \cup {[parses |-> TRUE, n |-> k] : k \in 0..MaxEvents}

\* The i-th change event of email e.
Change(e, i) ==
    [url |-> <<"", "guidance", "doc" \o ToString(i)>>,
     change |-> "change " \o ToString(e) \o "." \o ToString(i),
     updated_at |-> "10:35am",
     category |-> IF i = 1 THEN None ELSE Some("News")]

\* A mutant of from_eml: every email that parses yields a change event.
from_emlOneEvent(e, body) ==
    [ok |-> body.parses,
     updates |-> IF body.parses THEN [i \in 1..1 |-> Change(e, i)] ELSE << >>]

\* GovUkChange::from_eml on the file of email e
from_eml(e, body) ==
    IF body.parses
    THEN [ok |-> TRUE, updates |-> [i \in 1..body.n |-> Change(e, i)]]
    ELSE [ok |-> FALSE, updates |-> << >>]

\* A mutant of Message: the category is left out.
MessageNoCategory(change) == change.updated_at \o ": " \o change.change

\* format!("{}: {}{}", updated_at, change, category " [{}]" or "")
Message(change) ==
    change.updated_at \o ": " \o change.change \o
       (IF IsSome(change.category) THEN " [" \o Unwrap(change.category) \o "]" ELSE "")

\* The documents a successful crawl of the change's page hands to write_out:
\* the page itself, as HTML.
CrawlDocs(change) ==
    << [path |-> SetExtensionHtml(change.url), bytes |-> "page of " \o change.change] >>

\* The closure handed to fetch_change, applied to the documents in order:
\* repo.blob(bytes), then add_to_tree(path, oid, 0o100644), stopping at the
\* first error.
RECURSIVE WriteOut(_, _)
WriteOut(tb, docs) ==
    IF docs = << >> THEN Ok(tb)
    ELSE LET r == add_to_tree(tb, Head(docs).path, Blob(Head(docs).bytes), FileMode, 0)
         IN  IF r.ok THEN WriteOut(r.tree, Tail(docs)) ELSE r

\* A mutant of CommitUpdateRef: repo.commit is handed the reference to update.
CommitUpdateRefHead(r, commit) == Some(commit)

\* repo.commit(None, ...): update_ref is None, the reference stays as it is.
CommitUpdateRef(r, commit) == r

\* A mutant of LoopDone: the loop over the updates stops one event early.
LoopDoneEarly(idx, n) == idx >= n

\* for change in &updates: the loop has run through all n updates
LoopDone(idx, n) == idx > n

\* A mutant of StartParent: the chain starts from no parent.
StartParentNone(r) == None

\* Some(repo.find_reference(reference)?.peel_to_commit()?), given that the
\* reference exists
StartParent(r) == r

InitialCommit == NewCommit(None, EmptyTree, "initial commit")

Fresh ==
    [pc |-> "start", todo |-> {}, cur |-> 0, updates |-> << >>, idx |-> 0,
     parent |-> None, begin |-> None, tip |-> None, chain |-> << >>, result |-> "",
     count |-> 0, refWrites |-> 0]

OrchIdle ==
    /\ inbox = {} /\ outbox = {} /\ mail = << >>
    /\ ref = None
    /\ locks = [e \in Emails |-> {}]
    /\ proc = [p \in {} |-> Fresh]
    /\ restarts = 0

InitOrch(instances) ==
    /\ inbox = {} /\ outbox = {} /\ mail = << >>
    /\ ref \in {None, Some(InitialCommit)}
    /\ locks = [e \in Emails |-> {}]
    /\ proc = [p \in instances |-> Fresh]
    /\ restarts = 0

Running(p) == proc[p].pc \notin {"crashed", "panicked", "exited"}

\* main, up to the loop: the directories, the first push, the socket.  A
\* failed first push ends the process.
Start(p) ==
    /\ proc[p].pc = "start"
    /\ \E pushOk \in BOOLEAN :
         proc' = [proc EXCEPT ![p].pc = IF pushOk THEN "pass" ELSE "exited"]
    /\ UNCHANGED <<inbox, outbox, mail, ref, locks, restarts, treeVars, crawlVars, parseVars, canonVars, recvVars>>

\* process_updates_in_dir: read_dir lists the pending files.
BeginPass(p) ==
    /\ proc[p].pc = "pass"
    /\ proc' = [proc EXCEPT ![p].pc = "iter", ![p].todo = inbox, ![p].count = 0]
    /\ UNCHANGED <<inbox, outbox, mail, ref, locks, restarts, treeVars, crawlVars, parseVars, canonVars, recvVars>>

\* The next directory entry: process_email_update_file is entered.
NextEmail(p) ==
    /\ proc[p].pc = "iter"
    /\ \E e \in proc[p].todo :
         proc' = [proc EXCEPT ![p] = [Fresh EXCEPT
                     !.pc = "lock", !.todo = proc[p].todo \ {e}, !.cur = e,
                     !.begin = ref, !.count = proc[p].count]]
    /\ UNCHANGED <<inbox, outbox, mail, ref, locks, restarts, treeVars, crawlVars, parseVars, canonVars, recvVars>>

\* FileLock::lock(path, blocking, read-only): the file is opened and a shared
\* lock taken; opening a file that is no longer there fails.  A shared lock
\* waits only for an exclusive one, which no step of the orchestrator takes.
LockFile(p) ==
    /\ proc[p].pc = "lock"
    /\ IF proc[p].cur \in inbox
       THEN /\ locks' = [locks EXCEPT ![proc[p].cur] = @ \cup {p}]
            /\ proc' = [proc EXCEPT ![p].pc = "read"]
       ELSE /\ locks' = locks
            /\ proc' = [proc EXCEPT ![p].pc = "returned",
                                    ![p].result = "Locking file email file"]
    /\ UNCHANGED <<inbox, outbox, mail, ref, restarts, treeVars, crawlVars, parseVars, canonVars, recvVars>>

\* read_to_end, and the end of the block: the lock is dropped.
ReadFile(p) ==
    /\ proc[p].pc = "read"
    /\ locks' = [locks EXCEPT ![proc[p].cur] = @ \ {p}]
    /\ proc' = [proc EXCEPT ![p].pc = "parse"]
    /\ UNCHANGED <<inbox, outbox, mail, ref, restarts, treeVars, crawlVars, parseVars, canonVars, recvVars>>

\* GovUkChange::from_eml, Repository::open and find_reference.
ParseAndOpen(p) ==
    /\ proc[p].pc = "parse"
    /\ LET parsed == from_eml(proc[p].cur, mail[proc[p].cur])
       IN  proc' = [proc EXCEPT ![p] =
             IF ~parsed.ok
             THEN [@ EXCEPT !.pc = "returned", !.result = "Parsing email"]
             ELSE IF ~IsSome(ref)
             THEN [@ EXCEPT !.pc = "returned", !.updates = parsed.updates,
                            !.result = "reference not found"]
             ELSE [@ EXCEPT !.pc = "changes", !.updates = parsed.updates,
                            !.idx = 1, !.tip = ref, !.parent = StartParent(ref)]]
    /\ UNCHANGED <<inbox, outbox, mail, ref, locks, restarts, treeVars, crawlVars, parseVars, canonVars, recvVars>>

\* handle_change for the next update: a CommitBuilder on the parent, the
\* crawl writing into it, the commit.  The crawl may fail (fetchOk).
HandleChange(p) ==
    /\ proc[p].pc = "changes"
    /\ ~LoopDone(proc[p].idx, Len(proc[p].updates))
    /\ \E fetchOk \in BOOLEAN :
         LET change == proc[p].updates[proc[p].idx]
             cb == CommitBuilderNew(proc[p].parent)
             w == WriteOut(cb.tree, CrawlDocs(change))
             commit == NewCommit(cb.parent, w.tree, Message(change))
         IN  IF fetchOk /\ w.ok
             THEN /\ ref' = CommitUpdateRef(ref, commit)
                  /\ proc' = [proc EXCEPT ![p].parent = Some(commit),
                                          ![p].chain = Append(@, commit),
                                          ![p].idx = @ + 1]
             ELSE /\ ref' = ref
                  /\ proc' = [proc EXCEPT ![p].pc = "returned",
                                          ![p].result = "Processing change"]
    /\ UNCHANGED <<inbox, outbox, mail, locks, restarts, treeVars, crawlVars, parseVars, canonVars, recvVars>>

\* repo.reference(reference, commit.id(), force = true, ..)
UpdateRef(p) ==
    /\ proc[p].pc = "changes"
    /\ LoopDone(proc[p].idx, Len(proc[p].updates))
    /\ IF IsSome(proc[p].parent)
       THEN /\ ref' = proc[p].parent
            /\ proc' = [proc EXCEPT ![p].pc = "rename", ![p].refWrites = @ + 1]
       ELSE /\ ref' = ref
            /\ proc' = [proc EXCEPT ![p].pc = "rename"]
    /\ UNCHANGED <<inbox, outbox, mail, locks, restarts, treeVars, crawlVars, parseVars, canonVars, recvVars>>

\* A mutant of RenamedFrom: the file stays in the pending directory.
RenamedFromKept(dir, e) == dir

\* fs::rename(dir_entry.path(), ..): the entry leaves the pending directory
RenamedFrom(dir, e) == dir \ {e}

\* A mutant of RenamedTo: the file does not appear in the archive.
RenamedToLost(dir, e) == dir

\* fs::rename(.., &done_path): the entry appears in the archive, under
\* out_dir/<to_dir_name>/<file_name>.  An email of the model stands for its
\* recipient-directory name and its file name, which done_path keeps.
RenamedTo(dir, e) == dir \cup {e}

\* create_dir_all and fs::rename into the archive
Rename(p) ==
    /\ proc[p].pc = "rename"
    /\ IF proc[p].cur \in inbox
       THEN /\ inbox' = RenamedFrom(inbox, proc[p].cur)
            /\ outbox' = RenamedTo(outbox, proc[p].cur)
            /\ proc' = [proc EXCEPT ![p].pc = "returned", ![p].result = "ok"]
       ELSE /\ UNCHANGED <<inbox, outbox>>
            /\ proc' = [proc EXCEPT ![p].pc = "returned",
                                    ![p].result = "Renaming file"]
    /\ UNCHANGED <<mail, ref, locks, restarts, treeVars, crawlVars, parseVars, canonVars, recvVars>>

\* Back in process_updates_in_dir: `?` on the result, count += 1; and in main
\* .expect on the result of the pass.
AfterReturn(p) ==
    /\ proc[p].pc = "returned"
    /\ proc' = [proc EXCEPT ![p] =
          IF proc[p].result = "ok"
          THEN [Fresh EXCEPT !.pc = "iter", !.todo = proc[p].todo,
                             !.count = proc[p].count + 1]
          ELSE [Fresh EXCEPT !.pc = "panicked", !.result = proc[p].result]]
    /\ UNCHANGED <<inbox, outbox, mail, ref, locks, restarts, treeVars, crawlVars, parseVars, canonVars, recvVars>>

\* The pass is over: Ok(count), the push when count > 0 (its failure is only
\* printed), then socket.accept().
EndPass(p) ==
    /\ proc[p].pc = "iter"
    /\ proc[p].todo = {}
    /\ proc' = [proc EXCEPT ![p].pc = "accept"]
    /\ UNCHANGED <<inbox, outbox, mail, ref, locks, restarts, treeVars, crawlVars, parseVars, canonVars, recvVars>>

\* socket.accept() and receive_updates_on_socket: one SMTP session, which
\* leaves the emails of its transactions in the inbox.
Accept(p) ==
    /\ proc[p].pc = "accept"
    /\ \E k \in 0..(NumEmails - Len(mail)) :
         \E bodies \in [1..k -> EmailBodies] :
            /\ mail' = mail \o bodies
            /\ inbox' = inbox \cup ((Len(mail) + 1)..(Len(mail) + k))
    /\ proc' = [proc EXCEPT ![p].pc = "pass"]
    /\ UNCHANGED <<outbox, ref, locks, restarts, treeVars, crawlVars, parseVars, canonVars, recvVars>>

\* The process is killed: its locals are gone, its locks released.
Crash(p) ==
    /\ Running(p)
    /\ proc' = [proc EXCEPT ![p] = [Fresh EXCEPT !.pc = "crashed"]]
    /\ locks' = [e \in Emails |-> locks[e] \ {p}]
    /\ UNCHANGED <<inbox, outbox, mail, ref, restarts, treeVars, crawlVars, parseVars, canonVars, recvVars>>

\* The process is started again.
Restart(p) ==
    /\ ~Running(p)
    /\ restarts < MaxRestarts
    /\ restarts' = restarts + 1
    /\ proc' = [proc EXCEPT ![p] = Fresh]
    /\ UNCHANGED <<inbox, outbox, mail, ref, locks, treeVars, crawlVars, parseVars, canonVars, recvVars>>

Next ==
    \/ \E p \in DOMAIN proc : Start(p)
    \/ \E p \in DOMAIN proc : BeginPass(p)
    \/ \E p \in DOMAIN proc : NextEmail(p)
    \/ \E p \in DOMAIN proc : LockFile(p)
    \/ \E p \in DOMAIN proc : ReadFile(p)
    \/ \E p \in DOMAIN proc : ParseAndOpen(p)
    \/ \E p \in DOMAIN proc : HandleChange(p)
    \/ \E p \in DOMAIN proc : UpdateRef(p)
    \/ \E p \in DOMAIN proc : Rename(p)
    \/ \E p \in DOMAIN proc : AfterReturn(p)
    \/ \E p \in DOMAIN proc : EndPass(p)
    \/ \E p \in DOMAIN proc : Accept(p)
    \/ \E p \in DOMAIN proc : Crash(p)
    \/ \E p \in DOMAIN proc : Restart(p)

\* One instance, as the program is deployed.
Init == InitOrch({"A"}) /\ BuilderIdle /\ CrawlIdle /\ ParseIdle /\ CanonIdle /\ RecvIdle
Spec == Init /\ [][Next]_vars

\* Two instances over the same directories and repository, neither of them
\* killed or started again.
NextTwo ==
    \/ \E p \in DOMAIN proc : Start(p)
    \/ \E p \in DOMAIN proc : BeginPass(p)
    \/ \E p \in DOMAIN proc : NextEmail(p)
    \/ \E p \in DOMAIN proc : LockFile(p)
    \/ \E p \in DOMAIN proc : ReadFile(p)
    \/ \E p \in DOMAIN proc : ParseAndOpen(p)
    \/ \E p \in DOMAIN proc : HandleChange(p)
    \/ \E p \in DOMAIN proc : UpdateRef(p)
    \/ \E p \in DOMAIN proc : Rename(p)
    \/ \E p \in DOMAIN proc : AfterReturn(p)
    \/ \E p \in DOMAIN proc : EndPass(p)
    \/ \E p \in DOMAIN proc : Accept(p)

InitTwo == InitOrch({"A", "B"}) /\ BuilderIdle /\ CrawlIdle /\ ParseIdle /\ CanonIdle /\ RecvIdle
SpecTwo == InitTwo /\ [][NextTwo]_vars

\* One CommitBuilder chain.
InitTree == OrchIdle /\ InitBuilder /\ CrawlIdle /\ ParseIdle /\ CanonIdle /\ RecvIdle
SpecTree == InitTree /\ [][NextTree]_vars

\* One crawl on its own
InitCrawl == OrchIdle /\ BuilderIdle /\ CrawlStart /\ ParseIdle /\ CanonIdle /\ RecvIdle
SpecCrawl == InitCrawl /\ [][NextCrawl]_vars

\* One call of the parser on its own
InitParse == OrchIdle /\ BuilderIdle /\ CrawlIdle /\ ParseStart /\ CanonIdle /\ RecvIdle
SpecParse == InitParse /\ [][NextParse]_vars

\* remove_ids on its own
InitCanon == OrchIdle /\ BuilderIdle /\ CrawlIdle /\ ParseIdle /\ CanonStart /\ RecvIdle
SpecCanon == InitCanon /\ [][NextCanon]_vars

\* The receiver of src/src/main.rs.
InitRecv == OrchIdle /\ BuilderIdle /\ CrawlIdle /\ ParseIdle /\ CanonIdle /\ RecvStart
SpecRecv == InitRecv /\ [][NextRecv]_vars

\* The receiver of src/src/bin/server.rs and the passes between its sessions.
InitServer == OrchIdle /\ BuilderIdle /\ CrawlIdle /\ ParseIdle /\ CanonIdle /\ RecvStart
SpecServer == InitServer /\ [][NextServer]_vars

\* ------------------------------------------------------------------------
\* The claims
\* ------------------------------------------------------------------------
Returned(p) == proc[p].pc = "returned"

\* The commits of the reference's history that carry the message of the i-th
\* change event of email e.
CommitsOf(e, i) == {c \in Reachable(ref) : c.message = Message(Change(e, i))}

\* C1: when process_email_update_file returns an error of parsing the email
\* or of processing one of its change events, the reference has the value it
\* had when the processing of the email began, no commit built for the email
\* is reachable from it, and the email file is still pending, not archived.
C1_FailureLeavesRefAndEmail ==
    \A p \in DOMAIN proc :
        (Returned(p) /\ proc[p].result \in {"Parsing email", "Processing change"})
        => /\ ref = proc[p].begin
           /\ \A i \in 1..Len(proc[p].chain) : proc[p].chain[i] \notin Reachable(ref)
           /\ proc[p].cur \in inbox
           /\ proc[p].cur \notin outbox

\* The second change event of an email fails after the first was committed.
C1_Witness ==
    \E p \in DOMAIN proc :
        /\ Returned(p) /\ proc[p].result = "Processing change"
        /\ Len(proc[p].chain) = 1 /\ Len(proc[p].updates) = 2

\* C2: in every state, crashes included, every archived email has a commit
\* for each of its change events in the history of the reference; and the
\* file is renamed only once the chain is complete and the reference is at
\* its last commit.
C2_ArchivedImpliesCommitted ==
    /\ LET messages == {c.message : c \in Reachable(ref)}
       IN  \A e \in outbox :
              /\ mail[e].parses
              /\ \A i \in 1..mail[e].n : Message(Change(e, i)) \in messages
    /\ \A p \in DOMAIN proc :
          proc[p].pc = "rename"
          => /\ Len(proc[p].chain) = Len(proc[p].updates)
             /\ IsSome(ref)
             /\ \A i \in 1..Len(proc[p].chain) : proc[p].chain[i] \in Reachable(ref)
             /\ proc[p].cur \in inbox

\* An email of two change events is archived after it was processed twice:
\* the process was killed between the update of the reference and the rename.
C2_Witness ==
    /\ restarts > 0
    /\ \E e \in outbox : mail[e].n = 2 /\ Cardinality(CommitsOf(e, 2)) = 2

\* C3: each value the reference takes is its previous value or a descendant
\* of it.
C3_RefOnlyMovesForward ==
    [][\/ ref' = ref
       \/ /\ IsSome(ref) /\ IsSome(ref')
          /\ Unwrap(ref) \in History(Unwrap(ref'))]_vars

\* The reference was advanced by two emails, one after the other.
C3_Witness ==
    \E e1, e2 \in outbox :
        /\ e1 # e2 /\ mail[e1].n > 0 /\ mail[e2].n > 0
        /\ CommitsOf(e1, 1) # {} /\ CommitsOf(e2, 1) # {}

\* C4: an error of the parser or the fetcher on one pending email does not
\* end the process: the loop goes on to the other pending emails.
C4_ErrorDoesNotStopLoop ==
    \A p \in DOMAIN proc :
        ~(/\ proc[p].pc = "panicked"
          /\ proc[p].result \in {"Parsing email", "Processing change"})

\* C5: with two instances, no change event of an email has more than one
\* commit in the history of the reference.
C5_EachEmailFoldedOnce ==
    \A e \in 1..Len(mail) :
        \A i \in 1..mail[e].n : Cardinality(CommitsOf(e, i)) <= 1

\* C6: the update of the reference at the end of a chain keeps everything
\* reachable that was reachable from the reference at the moment of the
\* update.
C6_UpdateKeepsOtherWriter ==
    [][\A p \in DOMAIN proc :
          (proc[p].pc = "changes" /\ proc'[p].pc = "rename")
          => Reachable(ref) \subseteq Reachable(ref')]_vars

\* The chain a builds: one commit per update, in order, each on the one
\* before it, the first on the tip read when the processing started.
IsChain(chain, updates, tip) ==
    /\ Len(chain) = Len(updates)
    /\ \A i \in 1..Len(chain) :
          /\ chain[i].message = Message(updates[i])
          /\ Len(chain[i].parents) <= 1
          /\ chain[i].parents = IF i = 1 THEN tip ELSE Some(chain[i - 1])

\* C7: an email of n >= 1 change events gives n commits in the order of the
\* events, the first on the tip read at the start, each later one on the
\* commit before it; the reference is not written while the chain is built,
\* and written once, to the n-th commit, when all n exist.
C7_ChainOfNCommits ==
    \A p \in DOMAIN proc :
        /\ proc[p].pc = "changes"
           => /\ proc[p].refWrites = 0
              /\ ref = proc[p].tip
              /\ Len(proc[p].chain) = proc[p].idx - 1
        /\ (proc[p].pc = "rename" \/ (Returned(p) /\ proc[p].result = "ok"))
              /\ Len(proc[p].updates) >= 1
           => /\ IsChain(proc[p].chain, proc[p].updates, proc[p].tip)
              /\ proc[p].refWrites = 1
              /\ ref = Some(proc[p].chain[Len(proc[p].chain)])

\* An email of two change events was processed to the end.
C7_Witness ==
    \E p \in DOMAIN proc :
        Returned(p) /\ proc[p].result = "ok" /\ Len(proc[p].updates) = 2

\* The path the i-th change event of an email is written to
StoredPath(change) == Tail(SetExtensionHtml(change.url))

\* C8: with no reference in the repository, an email of two change events is
\* processed without any error but one of its crawls; and when it is, the
\* first commit has no parent, the second has the first, and the reference is
\* the second commit, whose tree holds the paths of both events.
C8_EmptyRepositoryChain ==
    \A p \in DOMAIN proc :
        (Returned(p) /\ proc[p].begin = None /\ Len(proc[p].updates) = 2)
        => /\ proc[p].result \in {"ok", "Processing change"}
           /\ proc[p].result = "ok"
              => /\ IsChain(proc[p].chain, proc[p].updates, None)
                 /\ ref = Some(proc[p].chain[2])
                 /\ \A i \in 1..2 :
                       IsSome(GetPath(proc[p].chain[2].tree,
                                      StoredPath(proc[p].updates[i])))

\* The proper prefixes of a relative path that resolve to a blob in the tree
BlockingBlobs(tree, path) ==
    {k \in 1..(Len(path) - 1) :
        LET entry == GetPath(tree, SubSeq(path, 1, k))
        IN  IsSome(entry) /\ Unwrap(entry).kind = "blob"}

\* The call wrote through a segment that was a blob in the tree.
Collides(call) ==
    HasRootPrefix(call.path) /\ BlockingBlobs(call.before, Tail(call.path)) # {}

\* C9: add_to_tree with a path one of whose intermediate segments is a blob
\* in the tree returns an error.
C9_CollisionIsAnError ==
    \A n \in 1..Len(calls) : Collides(calls[n]) => ~calls[n].ok

\* C10: when the last write before a commit went through a segment that was
\* a blob, the committed tree is the tree as it was before that write, the
\* blob in it under its name with its content.
C10_CollisionLeavesTree ==
    (builder.state = "Committed" /\ calls # << >>)
    => LET call == calls[Len(calls)]
           tree == made[Len(made)].tree
       IN  Collides(call)
           => /\ tree = call.before
              /\ \A k \in BlockingBlobs(call.before, Tail(call.path)) :
                    GetPath(tree, SubSeq(Tail(call.path), 1, k))
                       = GetPath(call.before, SubSeq(Tail(call.path), 1, k))

\* The last successful write of the open builder to the path of calls[n]
IsLastWrite(n) ==
    /\ calls[n].ok
    /\ \A m \in (n + 1)..Len(calls) :
          ~(calls[m].ok /\ calls[m].path = calls[n].path)

\* C11: after a commit, every path written on the builder resolves in the
\* committed tree to the blob of the last write made to that path, whatever
\* other paths were written on the builder.
C11_LastWriteWins ==
    builder.state = "Committed"
    => \A n \in 1..Len(calls) :
          IsLastWrite(n)
          => GetPath(made[Len(made)].tree, Tail(calls[n].path))
                = Some(BlobEntry(calls[n].oid, FileMode))

\* The paths that resolve to a blob in a tree
RECURSIVE BlobPaths(_)
BlobPaths(tree) ==
    UNION {IF tree[n].kind = "blob" THEN {<<n>>}
           ELSE {<<n>> \o q : q \in BlobPaths(tree[n].obj)} : n \in DOMAIN tree}

IsPrefix(p, q) == Len(p) <= Len(q) /\ SubSeq(q, 1, Len(p)) = p

\* The path is a written path, a prefix of one, or has one as a prefix.
Touched(q) ==
    \E n \in 1..Len(calls) :
        /\ calls[n].ok
        /\ IsPrefix(q, Tail(calls[n].path)) \/ IsPrefix(Tail(calls[n].path), q)

\* C12: on a builder whose base is commit P, every path that resolves to a
\* blob in P's tree and is neither a written path, nor a prefix of one, nor
\* has one as a prefix, resolves to the same blob in the committed tree.
C12_UntouchedPathsKept ==
    builder.state = "Committed"
    => \A q \in BlobPaths(BaseTree(builder.parent)) :
          ~Touched(q)
          => GetPath(made[Len(made)].tree, q)
                = GetPath(BaseTree(builder.parent), q)

\* A blob two levels down in P's tree is kept while a sibling of it was
\* written next to it.
C12_Witness ==
    /\ builder.state = "Committed"
    /\ IsSome(builder.parent)
    /\ \E q \in BlobPaths(BaseTree(builder.parent)) :
          /\ Len(q) = 2
          /\ ~Touched(q)
          /\ \E n \in 1..Len(calls) :
                /\ calls[n].ok
                /\ Len(calls[n].path) = 3
                /\ calls[n].path[2] = q[1]
          /\ GetPath(made[Len(made)].tree, q) = GetPath(BaseTree(builder.parent), q)

\* ------------------------------------------------------------- the crawl
CrawlOk == fc = [pc |-> "returned", err |-> "ok"]

\* C13: a dequeued URL of another host than www.gov.uk is not retrieved and
\* not written, and the loop goes on with the rest of the queue; no URL of
\* another host is ever retrieved.
C13_OffsiteSkipped ==
    [][/\ (fc.pc = "loop" /\ urls # << >> /\ Head(urls).host # "www.gov.uk")
          => /\ fc' = fc
             /\ urls' = Tail(urls)
             /\ wtree' = wtree
             /\ Retrieved' = Retrieved
       /\ \A i \in 1..Len(trail') :
             trail'[i].did # "skip" => trail'[i].url.host = "www.gov.uk"]_vars

\* A crawl returned Ok after it skipped a URL and then wrote a later one.
C13_Witness ==
    /\ CrawlOk
    /\ \E i, j \in 1..Len(trail) :
          i < j /\ trail[i].did = "skip" /\ trail[j].did = "wrote"

\* The URLs of the documents written by the crawl
WrittenUrls == {trail[i].url : i \in {k \in 1..Len(trail) : trail[k].did = "wrote"}}

\* The attachment hrefs of a page, resolved against the page's URL
Resolved(url) == [k \in 1..Len(site[url]) |-> Join(url, site[url][k])]

\* What the crawl made of a resource that is not text/html: a binary
\* document of the body's bytes that adds nothing to the queue.
BinaryAsIs(t) ==
    /\ ~Unwrap(t.doc).content.is_html
    /\ Unwrap(t.doc).content.bytes = Response(site, t.url).body
    /\ t.added = << >>

\* C14 as stated: after a crawl of an HTML page, the documents written are
\* the page and its attachment hrefs resolved against the page's URL; and a
\* resource that is not text/html is a binary document of the exact body
\* that adds no links.
C14_PathSetMatchesHrefs ==
    /\ (CrawlOk /\ trail # << >> /\ trail[1].url \in HtmlUrls)
       => WrittenUrls = {trail[1].url} \cup Range(Resolved(trail[1].url))
    /\ \A i \in 1..Len(trail) :
          (IsSome(trail[i].doc) /\ trail[i].url \notin HtmlUrls)
          => BinaryAsIs(trail[i])

\* C14 amended: every HTML page retrieved adds to the queue its attachment
\* hrefs resolved against its URL, in document order; a crawl that returns
\* Ok wrote the seed and, of those URLs, exactly the ones of the trusted
\* host (the attachments of attached pages included); and a resource that
\* is not text/html is a binary document of the exact body that adds no
\* links.
C14_TrustedAttachmentsWritten ==
    /\ \A i \in 1..Len(trail) :
          IsSome(trail[i].doc)
          => IF trail[i].url \in HtmlUrls
             THEN trail[i].added = Resolved(trail[i].url)
             ELSE BinaryAsIs(trail[i])
    /\ CrawlOk
       => /\ \A i \in 1..Len(trail) :
                trail[i].did = "wrote"
                => \/ i = 1
                   \/ \E j \in 1..(i - 1) :
                         /\ trail[j].did = "wrote"
                         /\ trail[j].url \in HtmlUrls
                         /\ trail[i].url \in Range(Resolved(trail[j].url))
          /\ \A u \in WrittenUrls :
                u.host = "www.gov.uk"
                /\ (u \in HtmlUrls
                    => \A a \in Range(Resolved(u)) :
                          a \in WrittenUrls <=> a.host = "www.gov.uk")

\* A crawl of a page with a file on the trusted host and one on another
\* host returned Ok: it wrote the page and the first file only, the file as
\* its body's bytes.
C14_Witness ==
    /\ CrawlOk
    /\ Len(trail) = 3
    /\ trail[1].url = DocUrl
    /\ trail[1].added = <<FileUrl, AssetUrl>>
    /\ WrittenUrls = {DocUrl, FileUrl}
    /\ trail[2].did = "wrote"
    /\ Unwrap(trail[2].doc).content = Other("bytes of file.pdf")

\* C15: no URL is retrieved twice in one crawl (and so a crawl of a finite
\* web ends).
C15_EachUrlRetrievedOnce ==
    \A i, j \in 1..Len(Retrieved) :
        i # j => Retrieved[i].url # Retrieved[j].url

\* The path a document of the URL is to be stored at: the URL's path,
\* for an HTML document with the extension of its last segment set to html.
ExpectedPath(t) ==
    IF Unwrap(t.doc).content.is_html
    THEN [t.url.path EXCEPT ![Len(t.url.path)] = FileStem(@) \o ".html"]
    ELSE t.url.path

\* C16: every document retrieved is written, without panic or error, at its
\* URL's path without the leading '/', an HTML document with the extension
\* html; the root path '/' included.
C16_StoredAtUrlPath ==
    /\ fc.pc # "panicked"
    /\ \A i \in 1..Len(trail) :
          IsSome(trail[i].doc)
          => /\ trail[i].did = "wrote"
             /\ trail[i].path = Some(ExpectedPath(trail[i]))
             /\ IsSome(GetPath(wtree, Tail(ExpectedPath(trail[i]))))

\* C17: the message of the commit made for a change event is updated_at,
\* then ": ", then change, then " [category]" when the event has a category
\* and nothing when it has none.
C17_CommitMessage ==
    \A p \in DOMAIN proc :
        \A i \in 1..Len(proc[p].chain) :
            LET u == proc[p].updates[i]
            IN  proc[p].chain[i].message
                   = IF u.category = None
                     THEN u.updated_at \o ": " \o u.change
                     ELSE u.updated_at \o ": " \o u.change
                             \o " [" \o u.category[1] \o "]"

\* The two commits of the first email: an event without a category and one
\* with the category News.
C17_Witness ==
    \E p \in DOMAIN proc :
        /\ Len(proc[p].chain) = 2
        /\ proc[p].chain[1].message = "10:35am: change 1.1"
        /\ proc[p].chain[2].message = "10:35am: change 1.2 [News]"

\* ------------------------------------------------------------ the parser
\* The email has a text/html part.
HasHtml == \E i \in 1..Len(Unwrap(eml).mimetypes) : Unwrap(eml).mimetypes[i] = "text/html"

TheBody == Body(Unwrap(eml).title, Unwrap(eml).layout, Unwrap(eml).faults)

\* The text of the first paragraph of the email, without trailing white
\* space, as an Option
Heading ==
    LET ps == SelectSeq(TheBody, LAMBDA el : el.tag = "p")
    IN  IF ps = << >> THEN None ELSE Some(trim_end(inner_html(Head(ps))))

EmptyList == Unwrap(answer).status = "ok" /\ Unwrap(answer).updates = << >>

\* C18 as stated: an email whose first paragraph is no known heading is an
\* error that carries the heading, and only the informational headings give
\* an empty list of change events.
C18_OnlyInfoHeadingsEmpty ==
    (IsSome(answer) /\ HasHtml /\ IsSome(Heading))
    => /\ Unwrap(Heading) \notin UpdateTitles \cup InfoTitles
          => Unwrap(answer) = PErr("Unexpected email title \""
                                      \o Unwrap(Heading) \o "\"")
       /\ EmptyList => Unwrap(Heading) \in InfoTitles

\* Every h2 of the body after the first is the "Why am I getting this
\* email?" heading.
NoUpdateSection ==
    LET h2s == SelectSeq(TheBody, LAMBDA el : el.tag = "h2")
    IN  /\ h2s # << >>
        /\ \A i \in 2..Len(h2s) :
              h2s[i].kids = <<Text("Why am I getting this email?")>>

\* C18 amended: an email whose first paragraph is no known heading is an
\* error that carries the heading; an empty list of change events is
\* returned for the informational headings, and for a digest heading when
\* the digest has no update section.
C18_UnknownHeadingIsError ==
    (IsSome(answer) /\ HasHtml /\ IsSome(Heading))
    => /\ Unwrap(Heading) \notin UpdateTitles \cup InfoTitles
          => Unwrap(answer) = PErr("Unexpected email title \""
                                      \o Unwrap(Heading) \o "\"")
       /\ EmptyList
          => \/ Unwrap(Heading) \in InfoTitles
             \/ Unwrap(Heading) \in {BulkTitle, DailyTitle} /\ NoUpdateSection

\* A digest of two complete sections under the heading "Update on GOV.UK."
\* (no zero width space) was refused with that heading in the error.
C18_Witness ==
    /\ IsSome(answer)
    /\ Unwrap(eml).title = Some("Update on GOV.UK.")
    /\ Unwrap(eml).layout = "bulk"
    /\ Unwrap(eml).faults = <<"good", "good">>
    /\ Unwrap(answer).status = "err"
    /\ Unwrap(answer).err = "Unexpected email title \"Update on GOV.UK.\""

\* The sections with an element missing
Missing ==
    {"no link", "no href", "empty heading", "no summary", "one text",
     "no separator"}

\* The email is one of a template, and a section the template reads has
\* the fault.
SectionRead(faults) ==
    \/ /\ Heading = Some(SingleTitle)
       /\ Unwrap(eml).layout = "single"
       /\ Unwrap(eml).faults # << >>
       /\ Unwrap(eml).faults[1] \in faults \ {"no separator"}
    \/ /\ Heading \in {Some(BulkTitle), Some(DailyTitle)}
       /\ Unwrap(eml).layout = "bulk"
       /\ \E k \in 1..Len(Unwrap(eml).faults) : Unwrap(eml).faults[k] \in faults

\* C19: the parser never panics, and an email without a text/html part or
\* with a section that misses its link, its href, its summary, the second
\* text of its change description or its separator is an error.
C19_MissingElementIsError ==
    IsSome(answer)
    => /\ Unwrap(answer).status # "panic"
       /\ (~HasHtml \/ SectionRead(Missing)) => Unwrap(answer).status = "err"

\* C20: every change event returned has a URL of the host www.gov.uk with
\* no query and no fragment; and an email of a template one of whose
\* document links has another host returns no change event but an error.
C20_TrustedHostNoQuery ==
    IsSome(answer)
    => /\ \A i \in 1..Len(Unwrap(answer).updates) :
             /\ Unwrap(answer).updates[i].url.host = "www.gov.uk"
             /\ Unwrap(answer).updates[i].url.query = None
             /\ Unwrap(answer).updates[i].url.fragment = None
       /\ (HasHtml /\ SectionRead({"offsite"}))
          => Unwrap(answer).status # "ok" /\ Unwrap(answer).updates = << >>

\* A digest whose first link carries a query and a fragment gave two change
\* events, the first with neither.
C20_Witness ==
    /\ IsSome(answer)
    /\ Unwrap(eml).title = Some(BulkTitle)
    /\ Unwrap(eml).layout = "bulk"
    /\ Unwrap(eml).faults = <<"tracked", "good">>
    /\ Unwrap(answer).status = "ok"
    /\ Len(Unwrap(answer).updates) = 2
    /\ Unwrap(answer).updates[1].url
          = [host |-> "www.gov.uk", path |-> <<"", "guidance", "doc1">>,
             query |-> None, fragment |-> None]

\* The change event of the k-th section of the model's emails
EventOf(k, category) ==
    [change |-> "change " \o ToString(k),
     updated_at |-> "10:3" \o ToString(k) \o "am",
     url |-> [host |-> "www.gov.uk", path |-> <<"", "guidance", "doc" \o ToString(k)>>,
              query |-> None, fragment |-> None],
     category |-> category]

\* The events of the sections from the k-th on that are not the
\* boilerplate one, in document order
RECURSIVE EventsFrom(_, _, _)
EventsFrom(faults, k, category) ==
    IF k > Len(faults) THEN << >>
    ELSE (IF faults[k] = "why" THEN << >> ELSE <<EventOf(k, category)>>)
         \o EventsFrom(faults, k + 1, category)

Complete(faults) == \A k \in 1..Len(faults) : faults[k] \in {"good", "tracked", "why"}

C22_Idempotent ==
    (Len(passes) >= 2 /\ passes[1].ok) => passes[2] = passes[1]

\* The elements of a fragment, at any depth
RECURSIVE AllElements(_)
AllElements(nodes) ==
    UNION {IF nodes[i].kind = "elem"
           THEN {nodes[i]} \cup AllElements(nodes[i].kids) ELSE {} :
           i \in 1..Len(nodes)}

HasRemovedAttribute(el) ==
    \E i \in 1..Len(el.attrs) :
        el.attrs[i].name \in {"id", "aria-labelledby", "aria-hidden"}

HasSidebarClass(el) ==
    \E i \in 1..Len(el.attrs) :
        /\ el.attrs[i].name = "class"
        /\ \E k \in 1..Len(el.attrs[i].value) :
              el.attrs[i].value[k] = "gem-c-contextual-sidebar"

\* A fragment with such attributes and a sidebar was changed by the first
\* call and not by the second.
C22_Witness ==
    /\ Len(passes) = 2
    /\ (\E el \in AllElements(frag) : HasRemovedAttribute(el))
    /\ (\E el \in AllElements(frag) : HasSidebarClass(el))
    /\ passes[1].ok
    /\ passes[1].html # frag
    /\ passes[1].html # << >>
    /\ passes[2] = passes[1]

\* `out` is `in` without the sidebar elements and, on the elements left,
\* without the three attributes: every other node and attribute is there,
\* unchanged and in the same order.
RECURSIVE Preserved(_, _)
Preserved(in, out) ==
    IF in = << >> THEN out = << >>
    ELSE IF Head(in).kind = "elem" /\ HasSidebarClass(Head(in))
    THEN Preserved(Tail(in), out)
    ELSE /\ out # << >>
         /\ IF Head(in).kind = "text" THEN Head(out) = Head(in)
            ELSE /\ Head(out).kind = "elem"
                 /\ Head(out).name = Head(in).name
                 /\ Head(out).attrs
                       = SelectSeq(Head(in).attrs, LAMBDA a :
                            a.name \notin {"id", "aria-labelledby", "aria-hidden"})
                 /\ Preserved(Head(in).kids, Head(out).kids)
         /\ Preserved(Tail(in), Tail(out))

\* C23: the output of remove_ids has no id, aria-labelledby or aria-hidden
\* attribute and no element of the sidebar class, and everything else of
\* the input is in it, unchanged and in order.
C23_StripsAndPreserves ==
    (passes # << >> /\ passes[1].ok)
    => /\ \A el \in AllElements(passes[1].html) : ~HasRemovedAttribute(el)
       /\ \A el \in AllElements(passes[1].html) : ~HasSidebarClass(el)
       /\ Preserved(frag, passes[1].html)

\* An element of two classes, the sidebar's among them, inside an element
\* that stays: the output has the outer element and no sidebar.
C23_Witness ==
    /\ Len(passes) = 1
    /\ passes[1].ok
    /\ frag[1].attrs = <<Attr("data-id", <<"x3">>),
                         Attr("class", <<"gem-c-contextual-sidebar-wide">>)>>
    /\ Len(frag[1].kids) = 3
    /\ frag[1].kids[2].attrs
          = <<Attr("class", <<"govuk", "gem-c-contextual-sidebar">>),
              Attr("id", <<"x2">>)>>
    /\ passes[1].html
          = <<Tag("div", frag[1].attrs,
                  <<TextNode("before"), Tag("p", << >>, <<TextNode("after")>>)>>)>>

\* C24: when remove_ids fails on one page of a crawl, the crawl goes on:
\* it does not return while a URL of the trusted host is left in the queue.
C24_RenderFailureNotFatal ==
    (trail # << >> /\ trail[Len(trail)].did = "render failed")
    => \/ fc.pc = "loop"
       \/ \A i \in 1..Len(urls) : urls[i].host # "www.gov.uk"

C26_FoldedOnce ==
    (restarts = 0 /\ \A p \in DOMAIN proc : proc[p].pc # "crashed")
    => /\ \A p \in DOMAIN proc :
            (proc[p].pc = "returned" /\ proc[p].result = "ok")
            => proc[p].cur \notin inbox
       /\ \A e \in 1..Len(mail) : \A i \in 1..mail[e].n :
            Cardinality(CommitsOf(e, i)) <= 1

C26_Witness ==
    /\ restarts = 0
    /\ \A p \in DOMAIN proc : proc[p].pc = "accept" /\ proc[p].count = 1
    /\ Cardinality(outbox) = 2
    /\ \A e \in outbox : mail[e].n > 0 /\ Cardinality(CommitsOf(e, 1)) = 1

\* C27: a failed push never stops the process: it goes on to accept mail and
\* to process later emails.
C27_PushFailureNotFatal ==
    \A p \in DOMAIN proc : proc[p].pc # "exited"

\* --------------------------------------------------------- the receivers
\* The files below the inbox directory
InboxFiles(fs) == DOMAIN fs \ {TempPath}

\* C28: in src/src/main.rs every file at an inbox path holds all the lines of
\* a message whose data_end answered OK: nothing is at the inbox path while
\* the message is received, nor after the session was dropped or failed.
C28_VisibleOnlyAfterDataEnd ==
    \A q \in InboxFiles(files) : [path |-> q, bytes |-> files[q]] \in delivered

C28_Witness ==
    /\ sess.pc = "closed" /\ sess.reply = "dropped" /\ Len(sess.sent) = 1
    /\ Cardinality(InboxFiles(files)) = 1
    /\ \E q \in InboxFiles(files) : Len(files[q]) = MaxLines

\* C29: a transaction whose data_end answers OK adds exactly one file below
\* the inbox directory, at the path made of the sender's domain, the joined
\* recipients and the time stamp; a transaction that fails at data_start
\* answers INTERNAL_ERROR and changes no file.
C29_OneNewFilePerTransaction ==
    [][/\ (sess.pc = "data" /\ sess'.pc = "command" /\ sess'.reply = "OK")
          => LET q == Unwrap(sess.writer).path IN
                /\ q \notin InboxFiles(files)
                /\ InboxFiles(files') = InboxFiles(files) \cup {q}
       /\ (sess.pc = "command" /\ sess'.n = sess.n + 1 /\ sess'.pc = "command")
          => sess'.reply = "INTERNAL_ERROR" /\ files' = files
      ]_vars

\* C30: in src/src/bin/server.rs every file the orchestrator reads from the
\* pending directory holds the lines of a message whose data_end answered OK.
C30_ReadsOnlyCompleteFiles ==
    \A r \in seen : r \in delivered

\* ------------------------------------------------------- CommitBuilder
\* C31: once CommitBuilder::commit has returned, the reference is the commit
\* it created, whose tree is the tree built and whose parent is the parent
\* of the builder.
C31_CommitUpdatesRef ==
    builder.state = "Committed"
    => /\ made[Len(made)].tree = builder.tree
       /\ made[Len(made)].parents = builder.parent
       /\ ref = Some(made[Len(made)])

\* ------------------------------------------------------ the orchestrator
\* C32: when an email that parses to no change event has been processed, no
\* commit was built for it, the reference is the commit it was when the
\* processing began, and the email is in the archive and no longer pending.
C32_ZeroEventsArchived ==
    \A p \in DOMAIN proc :
        (/\ Returned(p) /\ proc[p].result = "ok"
         /\ mail[proc[p].cur].parses /\ mail[proc[p].cur].n = 0)
        => /\ proc[p].chain = << >>
           /\ ref = proc[p].tip
           /\ proc[p].cur \in outbox /\ proc[p].cur \notin inbox

C32_Witness ==
    \E p \in DOMAIN proc :
        /\ Returned(p) /\ proc[p].result = "ok"
        /\ mail[proc[p].cur].parses /\ mail[proc[p].cur].n = 0
        /\ proc[p].refWrites = 1
        /\ \E e \in outbox : mail[e].n > 0 /\ CommitsOf(e, 1) # {}

\* ------------------------------------------------------------- the crawl
\* The URLs the turns of the loop added to the queue, in the order added
RECURSIVE AddedUpTo(_)
AddedUpTo(n) == IF n = 0 THEN << >> ELSE AddedUpTo(n - 1) \o trail[n].added

\* C33: the URLs are dequeued in the order they were enqueued, the seed
\* first and then what each turn of the loop found, in document order; every
\* turn but the last one has skipped its URL or written its document; and a
\* turn that failed to retrieve or to write is the last one: fetch_change
\* has returned the error, with the rest of the queue not retrieved.
C33_BreadthFirst ==
    trail # << >>
    => /\ [i \in 1..Len(trail) |-> trail[i].url] \o urls
            = <<trail[1].url>> \o AddedUpTo(Len(trail))
       /\ \A i \in 1..(Len(trail) - 1) : trail[i].did \in {"wrote", "skip"}
       /\ trail[Len(trail)].did \notin {"wrote", "skip"}
            => /\ fc.pc \in {"returned", "panicked"}
               /\ fc.err \notin {"", "ok"}

C33_Witness ==
    /\ fc.pc = "returned" /\ fc.err = "Error retrieving"
    /\ Len(trail) = 4 /\ urls # << >>
    /\ Len(trail[1].added) = 3
    /\ trail[3].added # << >>
    /\ \A i \in 1..3 : trail[i].did = "wrote"

\* ----------------------------------------------------- the SMTP handler
\* The files that hold the email of a transaction whose data_end answered OK
Intact(fs) == {d \in delivered : d.path \in DOMAIN fs /\ fs[d.path] = d.bytes}

\* C34: a writer is open while DATA is received; data_end leaves no writer,
\* whatever it answers; no file changes in a step of the session that has no
\* writer before and after it; and a data call of a later transaction changes
\* no file that holds the email of an earlier one.
C34_WriterOnlyDuringData ==
    [][/\ sess'.pc = "data" => IsSome(sess'.writer)
       /\ (sess.pc = "data" /\ sess'.pc = "command"
            /\ sess'.reply \in {"OK", "INTERNAL_ERROR"})
          => sess'.writer = None
       /\ (sess.pc \in {"command", "data"} /\ sess.writer = None
            /\ sess'.writer = None)
          => files' = files
       /\ (sess.pc = "data" /\ sess'.pc = "data")
          => Intact(files) \subseteq Intact(files')
      ]_vars

\* ------------------------------------------------------- add_to_tree
\* The tree of a builder on which only the successful ones of the first n
\* calls were made
RECURSIVE OnlySuccessful(_)
OnlySuccessful(n) ==
    IF n = 0 THEN BaseTree(builder.parent)
    ELSE IF calls[n].ok
         THEN add_to_tree(OnlySuccessful(n - 1), calls[n].path, calls[n].oid,
                          FileMode, 0).tree
         ELSE OnlySuccessful(n - 1)

\* C35: the tree of the builder, and the tree of the commit made from it, is
\* the tree the successful calls of add_to_tree alone would have built: a
\* call that returned an error has changed nothing.
C35_FailedAddLeavesTree ==
    /\ builder.state \in {"Open", "Committed"}
       => builder.tree = OnlySuccessful(Len(calls))
    /\ builder.state = "Committed"
       => made[Len(made)].tree = OnlySuccessful(Len(calls))

C35_Witness ==
    /\ builder.state = "Committed"
    /\ Len(calls) = 3
    /\ calls[1].ok /\ Len(calls[1].path) = 3
    /\ ~calls[2].ok /\ calls[2].err = "storage error"
    /\ ~calls[3].ok /\ calls[3].err = "invalid entry name"
    /\ made[Len(made)].tree = calls[2].before

====
